---- MODULE Spec2Model ----
(***************************************************************************)
(* Model of scapy/sendrecv.py: the match coordinator SndRcvHandler, the    *)
(* sender it runs (_sndrcv_snd), the sniff loop it runs on the calling     *)
(* thread (AsyncSniffer._run with prn = _process_packet) and the flood     *)
(* generator (_FloodGenerator).                                            *)
(*                                                                         *)
(* Packets are external objects: a stimulus is a number of Stimuli with    *)
(* its fingerprint Hashret[s]; a received packet is a number of Replies    *)
(* with its fingerprint ReplyHashret[r] and the set ReplyAnswers[r] of     *)
(* stimuli s for which r.answers(s) is true.                               *)
(***************************************************************************)
EXTENDS Integers, Sequences, FiniteSets, TLC

\* ------------------------------------------------------------ bounds
\* most packets the receive socket hands to the sniffer in one run
MaxRecv == 2
\* sends of the flood generator after which the model lets it send no more
MaxFloodSends == 3

\* ------------------------------------------------------------ packets
Stimuli == {1, 2, 3}
\* p.hashret() of stimulus p: 1 and 3 share a fingerprint
Hashret == <<1, 2, 1>>
Replies == {1, 2, 3, 4}
\* r.hashret() of received packet r
ReplyHashret == <<1, 1, 1, 2>>
\* the stimuli s with r.answers(s); packet 3 answers two stimuli of one
\* bucket, packet 4 answers stimulus 2 and also stimulus 1, whose fingerprint
\* it does not carry
ReplyAnswers == <<{1}, {3}, {1, 3}, {1, 2}>>
\* the values of retry the caller passes: retry = n >= 0 resends the
\* unanswered stimuli up to n times, retry = -k is autostop with budget k
Retries == {-1, 0, 1}
\* the packet sources pkt the caller passes
PktLists == {<< >>, <<1, 3>>, <<1, 2, 3>>}

\* timeout None, and maxretries None: `timeout < 0` is turned into None by
\* __init__, and `if self.maxretries` reads None as 0
NoTimeout == -1
NoMaxretries == 0

\* ------------------------------------------------------------ hsent
\* hsent is a dict fingerprint -> list of stimuli; a dict keeps its keys in
\* insertion order, so it is a sequence of [h, lst] entries.

\* index of the entry of key h, 0 when h is not a key of hs
HIndex(hs, h) ==
    IF \E n \in 1..Len(hs) : hs[n].h = h
    THEN CHOOSE n \in 1..Len(hs) : hs[n].h = h
    ELSE 0

\* self.hsent.setdefault(p.hashret(), []).append(p)
HAppendLate(hs, p) == hs

HAppendFront(hs, p) ==
    LET n == HIndex(hs, Hashret[p]) IN
    IF n = 0 THEN Append(hs, [h |-> Hashret[p], lst |-> <<p>>])
    ELSE [hs EXCEPT ![n].lst = <<p>> \o @]

HAppend(hs, p) ==
    LET n == HIndex(hs, Hashret[p]) IN
    IF n = 0 THEN Append(hs, [h |-> Hashret[p], lst |-> <<p>>])
    ELSE [hs EXCEPT ![n].lst = Append(@, p)]

\* list(itertools.chain(*self.hsent.values()))
RECURSIVE Chain(_)
Chain(hs) == IF hs = << >> THEN << >> ELSE Head(hs).lst \o Chain(Tail(hs))

\* del hlst[i]
DelAtHead(lst, i) == Tail(lst)

DelAt(lst, i) == SubSeq(lst, 1, i - 1) \o SubSeq(lst, i + 1, Len(lst))

Range(f) == {f[x] : x \in DOMAIN f}

\* r.answers(sentpkt)
Answers(r, s) == s \in ReplyAnswers[r]

\* the scan `for i, sentpkt in enumerate(hlst): if r.answers(sentpkt)`:
\* the index of the stimulus r is paired with, 0 when the scan ends unpaired
FirstMatchHeadOnly(lst, r) ==
    IF lst # << >> /\ Answers(r, lst[1]) THEN 1 ELSE 0

LastMatch(lst, r) ==
    IF \E i \in 1..Len(lst) : Answers(r, lst[i])
    THEN CHOOSE i \in 1..Len(lst) :
            /\ Answers(r, lst[i])
            /\ \A j \in (i + 1)..Len(lst) : ~Answers(r, lst[j])
    ELSE 0

FirstMatch(lst, r) ==
    IF \E i \in 1..Len(lst) : Answers(r, lst[i])
    THEN CHOOSE i \in 1..Len(lst) :
            /\ Answers(r, lst[i])
            /\ \A j \in 1..(i - 1) : ~Answers(r, lst[j])
    ELSE 0

\* ------------------------------------------------------------ state
VARIABLES
    cfg,        \* the arguments of SndRcvHandler.__init__
    pcM,        \* position of the calling thread (coordinator and sniff loop)
    pcS,        \* position of the sender (_sndrcv_snd)
    tobesent,   \* self.tobesent: the stimuli of the current pass
    hsent,      \* self.hsent
    ans,        \* self.ans: sequence of <<stimulus, reply>>
    nbrecv,     \* self.nbrecv
    answered,   \* the stimuli that carry the attribute _answered
    notans,     \* self.notans
    noans,      \* self.noans
    send_done,  \* self._send_done
    breakout,   \* self.breakout (Event)
    retry,      \* local retry of __init__
    remain,     \* local remain of __init__
    sn,         \* the AsyncSniffer of the pass: running, continue_sniff
    snd,        \* locals of the sender: i, k (position in tobesent), p
    flood,      \* the _FloodGenerator: i, j, iterlen, stopevent
    env,        \* the world: packets handed over, interrupts, send failures
    hist,       \* history: sent, the stimuli transmitted so far; pins and
                \* psent, the stimuli put in hsent and those transmitted in
                \* the current pass, in order; passes, the passes begun; rcvd
                \* and ndisp, the packets dispatched and their number, ndisp0
                \* its value when the pass began; floodsends, the sends of
                \* the flood generator; whole, every pass ended so far
                \* transmitted all its source; fed, every pass ended so far
                \* was handed a packet
    wrap,       \* the socket the wrapper (sr, srp, srflood, ...) opened
    sniffer     \* the standalone AsyncSniffer: arg, the arguments of _run;
                \* obj, the object's fields and _run's locals; clr, the
                \* thread that calls stop() or join(); hist, history of the
                \* packets read and of those handed to lfilter, to prn and
                \* to stop_filter

vars == <<cfg, pcM, pcS, tobesent, hsent, ans, nbrecv, answered, notans, noans,
          send_done, breakout, retry, remain, sn, snd, flood, env, hist,
          wrap, sniffer>>

\* the variables of the coordinator
coordvars == <<cfg, pcM, pcS, tobesent, hsent, ans, nbrecv, answered, notans,
               noans, send_done, breakout, retry, remain, sn, snd, flood, env,
               hist, wrap>>

\* the parts of the standalone sniffer
sarg == sniffer.arg
snf == sniffer.obj
clr == sniffer.clr
shist == sniffer.hist

\* ------------------------------------------------------------ arguments
\* the calls sr/srp/sr1/srp1 make (any retry, multi, threaded, timeout,
\* stop_filter) and the calls sndrcvflood makes (a flood generator, the
\* other arguments at their defaults).
\* chainCC and chainEX are read by the code in one place each, the handler
\* of an interrupt and the handler of a failed send: each is "unread" until
\* the event that makes the code read it, and is drawn then ("yes", "no").
\* sndrcvflood passes no chainEX: it is "no" there.
Configs ==
    { [multi |-> m, threaded |-> t, isflood |-> FALSE, timeout |-> to,
       chainCC |-> "unread", chainEX |-> "unread", stopOn |-> sf, retry |-> n,
       pkt |-> l, maxretries |-> NoMaxretries] :
        m \in BOOLEAN, t \in BOOLEAN, to \in {NoTimeout, 1},
        sf \in {{}, {2, 4}}, n \in Retries, l \in PktLists }
    \cup
    { [multi |-> FALSE, threaded |-> TRUE, isflood |-> TRUE, timeout |-> to,
       chainCC |-> "unread", chainEX |-> "no", stopOn |-> {}, retry |-> 0,
       pkt |-> l, maxretries |-> mr] :
        to \in {NoTimeout, 1}, l \in PktLists, mr \in {NoMaxretries, 2, 3} }

\* the value of a chain argument once the code reads it
Drawn(v) == IF v = "unread" THEN {"yes", "no"} ELSE {v}

\* autostop of __init__
Autostop == IF cfg.retry < 0 THEN -cfg.retry ELSE 0

\* `threaded or self._flood`
Threaded == cfg.threaded \/ cfg.isflood

\* self.timeout is not None
HasTimeout == cfg.timeout >= 0

\* the sniffer is given a timeout:
\* `timeout=None if self.threaded and not self._flood else self.timeout`
SnifferTimeoutAlways == HasTimeout

SnifferHasTimeout == ~(cfg.threaded /\ ~cfg.isflood) /\ HasTimeout

\* stop_filter(r)
StopFilter(r) == r \in cfg.stopOn

\* ------------------------------------------------------------ wrappers
\* sr, srp, srflood, srpflood, sr1flood, srp1flood open a socket, call the
\* coordinator and close the socket when the coordinator has returned.
SrOpen == "open"
SrClose == "closed"

\* ------------------------------------------------------------ sniffer
\* AsyncSniffer.__init__: the object before start() or _run()
\* (continue_sniff and count are not set by __init__)
SnifferNew ==
    [pc |-> "new", running |-> FALSE, continue_sniff |-> "unset", count |-> 0,
     lst |-> << >>, socks |-> {}, pipe |-> FALSE, cb |-> FALSE,
     signalled |-> FALSE, exception |-> FALSE, results |-> "None",
     sockets |-> << >>, packets |-> << >>, cur |-> 0, dead |-> {},
     closed |-> {}, nrecv |-> 0]

CallerNew == [pc |-> "idle", op |-> "none", out |-> "none", join |-> FALSE,
              n |-> 0]

HistoryNew ==
    [read |-> << >>, seen |-> << >>, prn |-> << >>, tested |-> << >>,
     fired |-> 0, cause |-> "none", stopped |-> FALSE, ctrlc |-> FALSE,
     evicted |-> {}, started |-> 0, cbset |-> {}, cberr |-> "none"]

\* the coordinator's runs construct no standalone sniffer
NoSniffer == "none"

SniffIdle == sniffer = NoSniffer

\* the state of the coordinator when __init__ begins
CoordInit ==
    /\ cfg \in Configs
    /\ pcM = "top"
    /\ pcS = "idle"
    /\ tobesent = cfg.pkt
    /\ hsent = << >>
    /\ ans = << >>
    /\ nbrecv = 0
    /\ answered = {}
    /\ notans = 0
    /\ noans = 0
    /\ send_done = FALSE
    /\ breakout = FALSE
    /\ retry = IF cfg.retry < 0 THEN -cfg.retry ELSE cfg.retry
    /\ remain = << >>
    /\ sn = [running |-> FALSE, continue_sniff |-> FALSE, r |-> 0, ok |-> FALSE,
             interrupted |-> FALSE]
    /\ snd = [i |-> 0, k |-> 0, p |-> 0, exc |-> FALSE]
    /\ flood = [i |-> 0, j |-> 0, mid |-> FALSE, iterlen |-> 0,
                stopevent |-> FALSE]
    /\ env = [ctrlc |-> FALSE, fail |-> FALSE]
    /\ hist = [sent |-> {}, pins |-> << >>, psent |-> << >>, passes |-> 0,
               rcvd |-> {}, ndisp |-> 0, ndisp0 |-> 0, floodsends |-> 0,
               whole |-> TRUE, fed |-> TRUE]

Init ==
    /\ CoordInit
    /\ wrap = SrOpen
    /\ SniffIdle

\* ------------------------------------------------------------ flood
\* _FloodGenerator.__iter__, resumed for its next packet: the generator's
\* state after the resumption and the packet it yields (0: it returned).
\* With an empty source and no maxretries the `while True` never yields nor
\* returns: FloodSpins.
FloodSpins(fl) == ~fl.mid /\ cfg.pkt = << >> /\ cfg.maxretries = NoMaxretries

RECURSIVE FloodNext(_)
FloodNext(fl) ==
    IF fl.mid
    THEN \* inside `for p in self.tobesent`
         IF fl.j < Len(cfg.pkt)
         THEN IF fl.stopevent
              THEN [fl |-> fl, p |-> 0]
              ELSE [fl |-> [fl EXCEPT !.j = @ + 1], p |-> cfg.pkt[fl.j + 1]]
         ELSE FloodNext([fl EXCEPT !.mid = FALSE,
                                   !.iterlen = IF @ = 0 THEN fl.j ELSE @])
    ELSE \* at `while True`
         IF cfg.maxretries # 0 /\ fl.i + 1 >= cfg.maxretries
         THEN [fl |-> [fl EXCEPT !.i = @ + 1, !.j = 0], p |-> 0]
         ELSE FloodNext([fl EXCEPT !.i = @ + 1, !.j = 0, !.mid = TRUE])

\* ------------------------------------------------------------ sender
\* AsyncSniffer.stop_cb then the test of stop(): continue_sniff is cleared;
\* the caller then rereads it (SndRecheck)
StopCb(s) == [s EXCEPT !.continue_sniff = FALSE]

\* the condition of _stop_sniffer_if_done, with `self.sniffer.running`
StopIfDoneAlways ==
    /\ send_done
    /\ ~cfg.multi
    /\ sn.running

StopIfDone ==
    /\ send_done
    /\ noans >= notans
    /\ ~cfg.multi
    /\ sn.running

\* the finally clause of _sndrcv_snd
FinallyNotans(i) ==
    IF cfg.isflood THEN flood.iterlen
    ELSE IF ~send_done THEN i ELSE notans

\* `for p in self.tobesent`: the next stimulus is put in hsent under its
\* fingerprint; at the end of the source the loop is left
SndNext ==
    /\ pcS = "next"
    /\ IF cfg.isflood
       THEN /\ ~FloodSpins(flood)
            /\ LET n == FloodNext(flood) IN
               /\ n.p # 0 => hist.floodsends < MaxFloodSends
               /\ flood' = n.fl
               /\ IF n.p = 0
                  THEN /\ pcS' = "finally"
                       /\ UNCHANGED <<hsent, snd, hist>>
                  ELSE /\ hsent' = HAppend(hsent, n.p)
                       /\ snd' = [snd EXCEPT !.p = n.p]
                       /\ hist' = [hist EXCEPT !.pins = Append(@, n.p)]
                       /\ pcS' = "xmit"
       ELSE /\ UNCHANGED flood
            /\ IF snd.k < Len(tobesent)
               THEN /\ hsent' = HAppend(hsent, tobesent[snd.k + 1])
                    /\ snd' = [snd EXCEPT !.p = tobesent[snd.k + 1], !.k = @ + 1]
                    /\ hist' = [hist EXCEPT !.pins = Append(@, tobesent[snd.k + 1])]
                    /\ pcS' = "xmit"
               ELSE /\ pcS' = "finally"
                    /\ UNCHANGED <<hsent, snd, hist>>
    /\ UNCHANGED <<cfg, pcM, tobesent, ans, nbrecv, answered, notans, noans,
                   send_done, breakout, retry, remain, sn, env>>
    /\ UNCHANGED <<wrap, sniffer>>

\* self.pks.send(p) returns
SndSend ==
    /\ pcS = "xmit"
    /\ pcS' = "chk"
    /\ hist' = [hist EXCEPT !.sent = @ \cup {snd.p},
                            !.psent = Append(@, snd.p),
                            !.floodsends = IF cfg.isflood THEN @ + 1 ELSE @]
    /\ UNCHANGED <<cfg, pcM, tobesent, hsent, ans, nbrecv, answered, notans,
                   noans, send_done, breakout, retry, remain, sn, snd, flood, env>>
    /\ UNCHANGED <<wrap, sniffer>>

\* self.pks.send(p) raises: `except Exception`, then the finally clause
SndSendRaise ==
    /\ pcS = "xmit"
    /\ ~env.fail
    /\ env' = [env EXCEPT !.fail = TRUE]
    /\ \E ex \in Drawn(cfg.chainEX) : cfg' = [cfg EXCEPT !.chainEX = ex]
    /\ snd' = [snd EXCEPT !.exc = TRUE]
    /\ pcS' = "finally"
    /\ UNCHANGED <<pcM, tobesent, hsent, ans, nbrecv, answered, notans,
                   noans, send_done, breakout, retry, remain, sn, flood, hist>>
    /\ UNCHANGED <<wrap, sniffer>>

\* time.sleep(self.inter); if self.breakout.is_set(): break; i += 1
SndCheckBreak ==
    /\ pcS = "chk"
    /\ IF breakout
       THEN pcS' = "finally" /\ UNCHANGED snd
       ELSE pcS' = "next" /\ snd' = [snd EXCEPT !.i = @ + 1]
    /\ UNCHANGED <<cfg, pcM, tobesent, hsent, ans, nbrecv, answered, notans,
                   noans, send_done, breakout, retry, remain, sn, flood, env,
                   hist>>
    /\ UNCHANGED <<wrap, sniffer>>

\* the finally clause: notans and _send_done; an exception of send leaves
\* the sender here when chainEX is set
SndFinally ==
    /\ pcS = "finally"
    /\ notans' = FinallyNotans(snd.i)
    /\ send_done' = TRUE
    /\ pcS' = IF snd.exc /\ cfg.chainEX = "yes" THEN "raised" ELSE "stopchk"
    /\ UNCHANGED <<cfg, pcM, tobesent, hsent, ans, nbrecv, answered, noans,
                   breakout, retry, remain, sn, snd, flood, env, hist>>
    /\ UNCHANGED <<wrap, sniffer>>

\* `if self.threaded and self.timeout is not None and not
\* self.breakout.is_set()`: the sender waits on breakout, or returns
WaitOrExit ==
    IF cfg.threaded /\ HasTimeout /\ ~breakout THEN "waiting" ELSE "exit"

\* self._stop_sniffer_if_done() of the sender; when it does not call stop,
\* the test that follows it
SndStopIfDone ==
    /\ pcS = "stopchk"
    /\ IF StopIfDone
       THEN sn' = StopCb(sn) /\ pcS' = "recheck1"
       ELSE UNCHANGED sn /\ pcS' = WaitOrExit
    /\ UNCHANGED <<cfg, pcM, tobesent, hsent, ans, nbrecv, answered, notans,
                   noans, send_done, breakout, retry, remain, snd, flood, env,
                   hist>>
    /\ UNCHANGED <<wrap, sniffer>>

\* stop(): `if self.continue_sniff: raise Scapy_Exception`, which ends the
\* sender; else stop returns (join() has no thread to wait for) and, after
\* _stop_sniffer_if_done, the sender goes on to its wait
SndRecheck ==
    /\ pcS \in {"recheck1", "recheck2"}
    /\ pcS' = IF sn.continue_sniff THEN "raised"
              ELSE IF pcS = "recheck1" THEN WaitOrExit ELSE "exit"
    /\ UNCHANGED <<cfg, pcM, tobesent, hsent, ans, nbrecv, answered, notans,
                   noans, send_done, breakout, retry, remain, sn, snd, flood,
                   env, hist>>
    /\ UNCHANGED <<wrap, sniffer>>

\* self.breakout.wait(timeout=self.timeout) returns, the event set or the
\* timeout over; then `if self.sniffer.running: self.sniffer.stop()`
SndWake ==
    /\ pcS = "waiting"
    /\ IF sn.running
       THEN sn' = StopCb(sn) /\ pcS' = "recheck2"
       ELSE UNCHANGED sn /\ pcS' = "exit"
    /\ UNCHANGED <<cfg, pcM, tobesent, hsent, ans, nbrecv, answered, notans,
                   noans, send_done, breakout, retry, remain, snd, flood, env,
                   hist>>
    /\ UNCHANGED <<wrap, sniffer>>

\* ------------------------------------------------------------ dispatcher
\* _process_packet(r) up to its call of _stop_sniffer_if_done: the lookup of
\* r.hashret() in hsent, the scan of the bucket, and the record of the pair.
\* The result: hsent, ans, noans, the stimuli marked _answered, and ok.
ProcessPacketKeep(hs, an, na, marked, r) ==
    LET n == HIndex(hs, ReplyHashret[r])
        i == IF n = 0 THEN 0 ELSE FirstMatch(hs[n].lst, r)
    IN  IF i = 0
        THEN [hsent |-> hs, ans |-> an, noans |-> na, answered |-> marked,
              ok |-> FALSE]
        ELSE [hsent |-> hs, ans |-> Append(an, <<hs[n].lst[i], r>>),
              noans |-> na + 1, answered |-> marked, ok |-> TRUE]

ProcessPacketDel(hs, an, na, marked, r) ==
    LET n == HIndex(hs, ReplyHashret[r])
        i == IF n = 0 THEN 0 ELSE FirstMatch(hs[n].lst, r)
    IN  IF i = 0
        THEN [hsent |-> hs, ans |-> an, noans |-> na, answered |-> marked,
              ok |-> FALSE]
        ELSE [hsent |-> [hs EXCEPT ![n].lst = DelAt(@, i)],
              ans |-> Append(an, <<hs[n].lst[i], r>>),
              noans |-> na + 1, answered |-> marked, ok |-> TRUE]

ProcessPacket(hs, an, na, marked, r) ==
    LET n == HIndex(hs, ReplyHashret[r])
        i == IF n = 0 THEN 0 ELSE FirstMatch(hs[n].lst, r)
    IN  IF i = 0
        THEN [hsent |-> hs, ans |-> an, noans |-> na, answered |-> marked,
              ok |-> FALSE]
        ELSE LET s == hs[n].lst[i] IN
             IF ~cfg.multi
             THEN [hsent |-> [hs EXCEPT ![n].lst = DelAt(@, i)],
                   ans |-> Append(an, <<s, r>>),
                   noans |-> na + 1, answered |-> marked, ok |-> TRUE]
             ELSE [hsent |-> hs,
                   ans |-> Append(an, <<s, r>>),
                   noans |-> IF s \in marked THEN na ELSE na + 1,
                   answered |-> marked \cup {s}, ok |-> TRUE]

\* ------------------------------------------------------------ coordinator
\* `while retry >= 0`: a pass begins. The table is emptied, the sniffer of
\* the pass is made and _run calls started_callback: the sender thread is
\* started (threaded or flood) or _sndrcv_snd is run in place.
StartPass ==
    /\ pcM = "top"
    /\ retry >= 0
    /\ breakout' = FALSE
    /\ hsent' = << >>
    /\ sn' = [running |-> TRUE, continue_sniff |-> FALSE, r |-> 0, ok |-> FALSE,
              interrupted |-> FALSE]
    /\ snd' = [i |-> 0, k |-> 0, p |-> 0, exc |-> FALSE]
    /\ pcS' = "next"
    /\ pcM' = IF Threaded THEN "cs" ELSE "cb"
    /\ hist' = [hist EXCEPT !.passes = @ + 1, !.pins = << >>, !.psent = << >>,
                            !.ndisp0 = hist.ndisp]
    /\ UNCHANGED <<cfg, tobesent, ans, nbrecv, answered, notans, noans,
                   send_done, retry, remain, flood, env>>
    /\ UNCHANGED <<wrap, sniffer>>

\* not threaded: started_callback (_sndrcv_snd) returns, or the exception
\* of a send (chainEX) leaves _run and __init__
CallbackReturn ==
    /\ pcM = "cb"
    /\ pcS \in {"exit", "raised"}
    /\ pcM' = IF pcS = "raised" THEN "raised" ELSE "cs"
    /\ UNCHANGED <<cfg, pcS, tobesent, hsent, ans, nbrecv, answered, notans,
                   noans, send_done, breakout, retry, remain, sn, snd, flood,
                   env, hist>>
    /\ UNCHANGED <<wrap, sniffer>>

\* self.continue_sniff = True, after started_callback
SetContinue ==
    /\ pcM = "cs"
    /\ sn' = [sn EXCEPT !.continue_sniff = TRUE]
    /\ pcM' = "loop"
    /\ UNCHANGED <<cfg, pcS, tobesent, hsent, ans, nbrecv, answered, notans,
                   noans, send_done, breakout, retry, remain, snd, flood, env,
                   hist>>
    /\ UNCHANGED <<wrap, sniffer>>

\* what follows the sniff loop in _run and, in the threaded path, in
\* __init__: running = False, breakout.set(), _flood.stop()
LeaveRun(interrupted) ==
    /\ sn' = [sn EXCEPT !.running = IF interrupted THEN @ ELSE FALSE,
                        !.interrupted = interrupted]
    /\ breakout' = IF Threaded THEN TRUE ELSE breakout
    /\ flood' = IF cfg.isflood THEN [flood EXCEPT !.stopevent = TRUE] ELSE flood

\* `while sniff_sockets and self.continue_sniff`: select is entered, or the
\* loop is left
LoopTest ==
    /\ pcM = "loop"
    /\ IF sn.continue_sniff
       THEN /\ pcM' = "select"
            /\ UNCHANGED <<sn, breakout, flood>>
       ELSE /\ pcM' = "join"
            /\ LeaveRun(FALSE)
    /\ UNCHANGED <<cfg, pcS, tobesent, hsent, ans, nbrecv, answered, notans,
                   noans, send_done, retry, remain, snd, env, hist>>
    /\ UNCHANGED <<wrap, sniffer>>

\* the sniffer's own timeout is over (`remain <= 0`): the loop is left
SniffTimeout ==
    /\ pcM \in {"loop", "select"}
    /\ SnifferHasTimeout
    /\ pcM' = "join"
    /\ LeaveRun(FALSE)
    /\ UNCHANGED <<cfg, pcS, tobesent, hsent, ans, nbrecv, answered, notans,
                   noans, send_done, retry, remain, snd, env, hist>>
    /\ UNCHANGED <<wrap, sniffer>>

\* select returns because of the stop (control pipe, or the poll of a
\* non-blocking socket) with no packet read
SelectStop ==
    /\ pcM = "select"
    /\ ~sn.continue_sniff
    /\ pcM' = "loop"
    /\ UNCHANGED <<cfg, pcS, tobesent, hsent, ans, nbrecv, answered, notans,
                   noans, send_done, breakout, retry, remain, sn, snd, flood,
                   env, hist>>
    /\ UNCHANGED <<wrap, sniffer>>

\* select returns the receive socket, session.recv gives packet r and prn
\* (_process_packet) pairs it
Recv(r) ==
    /\ pcM = "select"
    /\ hist.ndisp < MaxRecv
    /\ ReplyAnswers[r] \cap hist.sent # {}
    /\ LET res == ProcessPacket(hsent, ans, noans, answered, r) IN
       /\ hsent' = res.hsent
       /\ ans' = res.ans
       /\ noans' = res.noans
       /\ answered' = res.answered
       /\ sn' = [sn EXCEPT !.r = r, !.ok = res.ok]
    /\ hist' = [hist EXCEPT !.rcvd = @ \cup {r}, !.ndisp = @ + 1]
    /\ pcM' = "check"
    /\ UNCHANGED <<cfg, pcS, tobesent, nbrecv, notans, send_done, breakout,
                   retry, remain, snd, flood, env>>
    /\ UNCHANGED <<wrap, sniffer>>

\* the rest of _process_packet (_stop_sniffer_if_done, nbrecv) and the test
\* of stop_filter in _run
ProcessCheck ==
    /\ pcM = "check"
    /\ sn' = [sn EXCEPT !.continue_sniff =
                 IF StopIfDone \/ StopFilter(sn.r) THEN FALSE ELSE @,
                        !.r = 0, !.ok = FALSE]
    /\ nbrecv' = IF sn.ok THEN nbrecv ELSE nbrecv + 1
    /\ pcM' = "loop"
    /\ UNCHANGED <<cfg, pcS, tobesent, hsent, ans, answered, notans, noans,
                   send_done, breakout, retry, remain, snd, flood, env, hist>>
    /\ UNCHANGED <<wrap, sniffer>>

\* KeyboardInterrupt in the try block of _run (chainCC=True is passed to
\* _run, so it is raised again there) and its handler in __init__: the
\* sniffer is left as it is, `interrupted = ex`
Interrupt ==
    /\ pcM \in {"cs", "loop", "select", "check"}
    /\ ~env.ctrlc
    /\ env' = [env EXCEPT !.ctrlc = TRUE]
    /\ \E cc \in Drawn(cfg.chainCC) : cfg' = [cfg EXCEPT !.chainCC = cc]
    /\ LeaveRun(TRUE)
    /\ pcM' = "join"
    /\ UNCHANGED <<pcS, tobesent, hsent, ans, nbrecv, answered, notans,
                   noans, send_done, retry, remain, snd, hist>>
    /\ UNCHANGED <<wrap, sniffer>>

\* not threaded: KeyboardInterrupt while _sndrcv_snd runs as the
\* started_callback; its finally clause is run when the try block was not
\* left yet
InterruptInline ==
    /\ pcM = "cb"
    /\ pcS \notin {"exit", "raised"}
    /\ ~env.ctrlc
    /\ env' = [env EXCEPT !.ctrlc = TRUE]
    /\ IF pcS \in {"next", "xmit", "chk", "finally"}
       THEN notans' = FinallyNotans(snd.i) /\ send_done' = TRUE
       ELSE UNCHANGED <<notans, send_done>>
    /\ pcS' = "exit"
    /\ \E cc \in Drawn(cfg.chainCC) : cfg' = [cfg EXCEPT !.chainCC = cc]
    /\ LeaveRun(TRUE)
    /\ pcM' = "join"
    /\ UNCHANGED <<tobesent, hsent, ans, nbrecv, answered, noans, retry,
                   remain, snd, hist>>
    /\ UNCHANGED <<wrap, sniffer>>

\* threaded: KeyboardInterrupt after the try block of __init__, while the
\* calling thread is in snd_thread.join(): nothing catches it, whatever
\* chainCC is
InterruptJoin ==
    /\ pcM = "join"
    /\ Threaded
    /\ ~env.ctrlc
    /\ env' = [env EXCEPT !.ctrlc = TRUE]
    /\ \E cc \in Drawn(cfg.chainCC) : cfg' = [cfg EXCEPT !.chainCC = cc]
    /\ pcM' = "raised"
    /\ UNCHANGED <<pcS, tobesent, hsent, ans, nbrecv, answered, notans,
                   noans, send_done, breakout, retry, remain, sn, snd, flood,
                   hist>>
    /\ UNCHANGED <<wrap, sniffer>>

\* the stimuli a pass leaves: `remain` of __init__
RemainAll(hs, marked) == Chain(hs)

Remain(hs, marked) ==
    IF cfg.multi
    THEN SelectSeq(Chain(hs), LAMBDA p : p \notin marked)
    ELSE Chain(hs)

\* retry after the autostop test of __init__
AutostopRetryNever(rem, tbs, rt) == rt

AutostopRetryAlways(rem, tbs, rt) ==
    IF Autostop # 0 /\ Len(rem) > 0 THEN Autostop ELSE rt

AutostopRetry(rem, tbs, rt) ==
    IF Autostop # 0 /\ Len(rem) > 0 /\ Len(rem) # Len(tbs)
    THEN Autostop
    ELSE rt

\* `if len(self.tobesent) == 0: break` and `retry -= 1`
RetryKept(rem, rt) == rt

RetryLeft(rem, rt) == IF Len(rem) = 0 THEN rt ELSE rt - 1

\* snd_thread.join() returns (threaded); `if interrupted and self.chainCC:
\* raise`; then remain, autostop, tobesent, and `break` or `retry -= 1`
JoinPost ==
    /\ pcM = "join"
    /\ Threaded => pcS \in {"exit", "raised"}
    /\ IF sn.interrupted /\ cfg.chainCC = "yes"
       THEN /\ pcM' = "raised"
            /\ UNCHANGED <<remain, tobesent, retry>>
       ELSE LET rem == Remain(hsent, answered)
                rt == RetryLeft(rem, AutostopRetry(rem, tobesent, retry))
            IN  /\ remain' = rem
                /\ tobesent' = rem
                /\ retry' = rt
                /\ pcM' = IF Len(rem) = 0 \/ rt < 0 THEN "fin" ELSE "top"
    /\ hist' = [hist EXCEPT !.whole = @ /\ hist.psent = tobesent,
                            !.fed = @ /\ hist.ndisp > hist.ndisp0]
    /\ UNCHANGED <<cfg, pcS, hsent, ans, nbrecv, answered, notans, noans,
                   send_done, breakout, sn, snd, flood, env>>
    /\ UNCHANGED <<wrap, sniffer>>

\* after the loop: _answered is deleted from the stimuli of ans, and the
\* result lists are made of ans and remain
Finish ==
    /\ pcM = "fin"
    /\ answered' = IF cfg.multi
                   THEN answered \ {ans[n][1] : n \in 1..Len(ans)}
                   ELSE answered
    /\ pcM' = "done"
    /\ UNCHANGED <<cfg, pcS, tobesent, hsent, ans, nbrecv, notans, noans,
                   send_done, breakout, retry, remain, sn, snd, flood, env, hist>>
    /\ wrap' = SrClose
    /\ UNCHANGED sniffer

\* ------------------------------------------------------------ specification
Next ==
    \/ StartPass
    \/ CallbackReturn
    \/ SetContinue
    \/ LoopTest
    \/ SniffTimeout
    \/ SelectStop
    \/ \E r \in Replies : Recv(r)
    \/ ProcessCheck
    \/ Interrupt
    \/ InterruptInline
    \/ InterruptJoin
    \/ JoinPost
    \/ Finish
    \/ SndNext
    \/ SndSend
    \/ SndSendRaise
    \/ SndCheckBreak
    \/ SndFinally
    \/ SndStopIfDone
    \/ SndRecheck
    \/ SndWake

Spec == Init /\ [][Next]_vars

\* the type of the state
TypeOK ==
    /\ [cfg EXCEPT !.chainCC = "unread",
                   !.chainEX = IF cfg.isflood THEN "no" ELSE "unread"] \in Configs
    /\ cfg.chainCC \in {"unread", "yes", "no"}
    /\ cfg.chainEX \in {"unread", "yes", "no"}
    /\ pcM \in {"top", "cb", "cs", "loop", "select", "check", "join", "fin",
                "done", "raised"}
    /\ pcS \in {"idle", "next", "xmit", "chk", "finally", "stopchk", "recheck1",
                "recheck2", "waiting", "exit", "raised"}
    /\ noans \in Nat /\ notans \in Nat /\ nbrecv \in Nat
    /\ hist.ndisp <= MaxRecv

\* ================================================= the standalone sniffer
\* AsyncSniffer used on its own (sniff(), or start() ... stop()/join()):
\* several sockets, a session that returns batches, lfilter, store, count,
\* stop_filter, a timeout, and another thread that calls stop() or join().
MaxSniffRecv == 2
MaxStops == 1

\* the packets a session hands over, and the batches of one recv
SniffPkts == {1, 2, 3}
Batches == {<<1, 1>>, <<2, 1>>, <<3, 2>>}

\* the control pipe, as a member of a select result
ClosePipe == 0

\* the sniff sets: how many sockets, and which of them have the attribute
\* nonblocking_socket set; socket 1 is the first of the set
SockSets == {<<1, {}>>, <<1, {1}>>, <<2, {}>>, <<2, {1}>>}

\* `getattr(_main_socket, "nonblocking_socket", False)`, _main_socket being
\* the first socket of the set
MainNonblocking(nb) == 1 \in nb

\* the arguments of _run; chainCC and conf.debug_dissector are drawn when the
\* code reads them, and so is whether the sockets were given by the caller
\* (opened_socket) when the closing code tests it
SniffConfigs ==
    { [count |-> c, store |-> st, lfilter |-> IF f THEN {3} ELSE {},
       stop_filter |-> IF f THEN {2} ELSE {}, timeout |-> to,
       blocking |-> ~MainNonblocking(ss[2]), nsock |-> ss[1],
       nonblocking |-> ss[2], async |-> a, chainCC |-> "unread",
       debug |-> "unread", opened_socket |-> "unread"] :
        c \in {0, 2}, st \in BOOLEAN, f \in BOOLEAN, to \in BOOLEAN,
        ss \in SockSets, a \in BOOLEAN }

SniffInit ==
    /\ CoordInit
    /\ cfg = [multi |-> FALSE, threaded |-> FALSE, isflood |-> FALSE,
              timeout |-> NoTimeout, chainCC |-> "unread",
              chainEX |-> "unread", stopOn |-> {}, retry |-> 0,
              pkt |-> << >>, maxretries |-> NoMaxretries]
    /\ wrap = SrOpen
    /\ sniffer \in [arg : SniffConfigs, obj : {SnifferNew}, clr : {CallerNew},
                   hist : {HistoryNew}]

\* `lfilter and not lfilter(p)`: the packet is skipped
LfilterNever(p) == FALSE

LfilterSkips(p) == p \in sarg.lfilter

\* `(stop_filter and stop_filter(p)) or (0 < count <= self.count)`
StopNow(p, c) ==
    \/ p \in sarg.stop_filter
    \/ 0 < sarg.count /\ sarg.count <= c

\* `while sniff_sockets and self.continue_sniff`
LoopGoesOnNever(s) == FALSE

LoopGoesOn(s) == (s.socks # {} \/ s.pipe) /\ s.continue_sniff = "true"

\* the sequences without repetition made of the members of a set
RECURSIVE Perms(_)
Perms(S) ==
    IF S = {} THEN {<< >>}
    ELSE UNION {{<<x>> \o q : q \in Perms(S \ {x})} : x \in S}

\* what select can return: the data sockets that have something to read, in
\* any order, with the control pipe once a stop has written to it; nothing
\* at all only from the select of non-blocking sockets, which polls
SelectResults ==
    LET piped == IF snf.pipe /\ snf.signalled THEN {ClosePipe} ELSE {}
        room == MaxSniffRecv - snf.nrecv
    IN  UNION {Perms(R \cup piped) :
                 R \in {X \in SUBSET snf.socks :
                          /\ Cardinality(X) <= room
                          /\ X \cup piped = {} => ~sarg.blocking}}

\* the sockets left once the dead ones are deleted, and whether the control
\* pipe stays: it is deleted when it is the only one left
EvictKeepsPipe(s) == [s EXCEPT !.socks = @ \ s.dead, !.dead = {}]

Evict(s) ==
    [s EXCEPT !.socks = @ \ s.dead,
              !.pipe = IF s.dead # {} /\ s.socks \ s.dead = {} THEN FALSE ELSE @,
              !.dead = {}]

\* a step of the standalone sniffer: the arguments, the object, the caller
\* and the history after it; the coordinator is not involved
SniffStep(a, o, c, h) ==
    /\ sniffer' = [arg |-> a, obj |-> o, clr |-> c, hist |-> h]
    /\ UNCHANGED coordvars

\* lines 1190-1192 and the opening of the sockets
RunBegin ==
    /\ snf.pc = "new"
    /\ SniffStep(sarg,
                 [snf EXCEPT !.pc = "setup", !.running = TRUE, !.count = 0,
                             !.lst = << >>, !.socks = 1..sarg.nsock],
                 clr, shist)

\* the control pipe, added when select blocks, and self.stop_cb
InstallStopCb ==
    /\ snf.pc = "setup"
    /\ SniffStep(sarg,
                 [snf EXCEPT !.pc = "cb", !.pipe = sarg.blocking, !.cb = TRUE],
                 clr, shist)

\* the keys of sniff_sockets: the data sockets and the control pipe
SniffSetNoPipe(o) == o.socks

SniffSet(o) == o.socks \cup (IF o.pipe THEN {ClosePipe} ELSE {})

\* started_callback() is called and returns, then
\* `self.continue_sniff = True`
SetContinueSniff ==
    /\ snf.pc = "cb"
    /\ SniffStep(sarg, [snf EXCEPT !.pc = "loop", !.continue_sniff = "true"],
                 clr, [shist EXCEPT !.started = @ + 1,
                                    !.cbset = SniffSet(snf)])

\* the test of the while loop
SniffLoopTest ==
    /\ snf.pc = "loop"
    /\ IF LoopGoesOn(snf)
       THEN SniffStep(sarg, [snf EXCEPT !.pc = "select"], clr, shist)
       ELSE SniffStep(sarg, [snf EXCEPT !.pc = "fin"], clr,
                      [shist EXCEPT !.cause =
                         IF snf.continue_sniff # "true" THEN "flag"
                         ELSE "nosocket"])

\* `if remain <= 0: break`, at once or after a select that waited in vain
SniffTimeoutBreak ==
    /\ snf.pc = "select"
    /\ sarg.timeout
    /\ SniffStep(sarg, [snf EXCEPT !.pc = "fin"], clr,
                 [shist EXCEPT !.cause = "timeout"])

\* select_func(list(sniff_sockets.keys()), remain)
SniffSelect ==
    /\ snf.pc = "select"
    /\ \E res \in SelectResults :
          SniffStep(sarg, [snf EXCEPT !.pc = "for", !.sockets = res], clr,
                    shist)

\* `for s in sockets` is over, or s is the control pipe (break); then the
\* dead sockets are deleted
SniffForEnd ==
    /\ snf.pc = "for"
    /\ IF snf.sockets = << >> THEN TRUE ELSE Head(snf.sockets) = ClosePipe
    /\ SniffStep(sarg, [Evict(snf) EXCEPT !.pc = "loop", !.sockets = << >>],
                 clr, shist)

\* session.recv(s) returns a batch
SniffRecv(b) ==
    /\ snf.pc = "for"
    /\ snf.sockets # << >> /\ Head(snf.sockets) # ClosePipe
    /\ SniffStep(sarg,
                 [snf EXCEPT !.pc = "pkts", !.sockets = Tail(@),
                             !.cur = Head(snf.sockets),
                             !.packets = b, !.nrecv = @ + 1],
                 clr, [shist EXCEPT !.read = @ \o b])

\* session.recv(s) raises EOFError: close, dead_sockets.append, continue
SniffRecvEOF ==
    /\ snf.pc = "for"
    /\ snf.sockets # << >> /\ Head(snf.sockets) # ClosePipe
    /\ SniffStep(sarg,
                 [snf EXCEPT !.sockets = Tail(@), !.nrecv = @ + 1,
                             !.closed = @ \cup {Head(snf.sockets)},
                             !.dead = @ \cup {Head(snf.sockets)}],
                 clr, [shist EXCEPT !.evicted = @ \cup {Head(snf.sockets)}])

\* _run_catch, the target of the thread of the asynchronous form: the
\* exception that leaves _run is kept in self.exception
RunCatchDrops(raised) == FALSE

RunCatch(raised) == raised /\ sarg.async

\* session.recv(s) raises another exception: close, dead_sockets.append,
\* then raise when conf.debug_dissector >= 2, else continue
SniffRecvError ==
    /\ snf.pc = "for"
    /\ snf.sockets # << >> /\ Head(snf.sockets) # ClosePipe
    /\ \E d \in Drawn(sarg.debug) :
          SniffStep([sarg EXCEPT !.debug = d],
                    [snf EXCEPT
                       !.pc = IF d = "yes" THEN "raised" ELSE @,
                       !.exception = IF RunCatch(d = "yes") THEN TRUE ELSE @,
                       !.sockets = Tail(@), !.nrecv = @ + 1,
                       !.closed = @ \cup {Head(snf.sockets)},
                       !.dead = @ \cup {Head(snf.sockets)}],
                    clr, [shist EXCEPT !.evicted = @ \cup {Head(snf.sockets)}])

\* one turn of `for p in packets`
SniffPacket ==
    /\ snf.pc = "pkts"
    /\ IF snf.packets = << >>
       THEN SniffStep(sarg, [snf EXCEPT !.pc = "for", !.cur = 0], clr, shist)
       ELSE LET p == Head(snf.packets) IN
            IF LfilterSkips(p)
            THEN SniffStep(sarg, [snf EXCEPT !.packets = Tail(@)], clr,
                           [shist EXCEPT !.seen = Append(@, p)])
            ELSE LET stop == StopNow(p, snf.count + 1) IN
                 SniffStep(sarg,
                           [snf EXCEPT
                              !.count = @ + 1,
                              !.lst = IF sarg.store THEN Append(@, p) ELSE @,
                              !.continue_sniff = IF stop THEN "false" ELSE @,
                              !.packets = IF stop THEN << >> ELSE Tail(@),
                              !.cur = IF stop THEN 0 ELSE @,
                              !.pc = IF stop THEN "for" ELSE @],
                           clr,
                           [shist EXCEPT
                              !.seen = Append(@, p),
                              !.prn = Append(@, p),
                              !.tested = Append(@, p),
                              !.fired = IF stop /\ @ = 0
                                        THEN snf.count + 1 ELSE @])

\* the callbacks called for a packet, in the order of the calls
Callbacks == <<"lfilter", "prn", "stop_filter">>

\* the packets for which a callback can raise, in the calls that give
\* lfilter and stop_filter
Raisers == {1}

\* callback w is called for a packet: lfilter and stop_filter when given,
\* prn and stop_filter for a packet lfilter let through
Called(w, p) ==
    IF w = "lfilter" THEN sarg.lfilter # {}
    ELSE IF w = "prn" THEN ~LfilterSkips(p)
    ELSE ~LfilterSkips(p) /\ sarg.stop_filter # {}

\* the packet is counted and stored before callback w is called: lfilter
\* comes before `self.count += 1`, prn and stop_filter after
CountedBeforeNever(w) == FALSE

CountedBefore(w) == w # "lfilter"

\* lfilter, prn or stop_filter raises for the packet at hand, read from
\* socket snf.cur: what came before the call in the turn is done, then
\* `except Exception` as for a failure of recv
SniffCallbackError(w) ==
    /\ snf.pc = "pkts"
    /\ snf.packets # << >>
    /\ shist.cberr = "none"
    /\ sarg.lfilter # {}
    /\ Head(snf.packets) \in Raisers
    /\ Called(w, Head(snf.packets))
    /\ LET p == Head(snf.packets)
           acc == CountedBefore(w)
       IN  \E d \in Drawn(sarg.debug) :
              SniffStep([sarg EXCEPT !.debug = d],
                        [snf EXCEPT
                           !.count = IF acc THEN @ + 1 ELSE @,
                           !.lst = IF acc /\ sarg.store THEN Append(@, p) ELSE @,
                           !.pc = IF d = "yes" THEN "raised" ELSE "for",
                           !.exception = IF RunCatch(d = "yes") THEN TRUE ELSE @,
                           !.packets = << >>, !.cur = 0,
                           !.closed = @ \cup {snf.cur},
                           !.dead = @ \cup {snf.cur}],
                        clr,
                        [shist EXCEPT
                           !.seen = IF w # "lfilter" THEN Append(@, p) ELSE @,
                           !.prn = IF w # "lfilter" THEN Append(@, p) ELSE @,
                           !.tested = IF w = "stop_filter" THEN Append(@, p)
                                      ELSE @,
                           !.evicted = @ \cup {snf.cur},
                           !.cberr = w])

\* KeyboardInterrupt in the try block of _run, which runs on the main thread
\* in the synchronous form: `if chainCC: raise`
SniffInterrupt ==
    /\ ~sarg.async
    /\ snf.pc \in {"cb", "loop", "select", "for", "pkts"}
    /\ \E cc \in Drawn(sarg.chainCC) :
          SniffStep([sarg EXCEPT !.chainCC = cc],
                    [snf EXCEPT !.pc = IF cc = "yes" THEN "raised" ELSE "fin"],
                    clr, [shist EXCEPT !.cause = "interrupt", !.ctrlc = TRUE])

\* what the end of _run closes: every member of sniff_sockets when the
\* sniffer opened the sockets itself, else the control pipe if one was made
ClosedAtEnd(o, os) ==
    IF os = "no" THEN SniffSet(o)
    ELSE IF sarg.blocking THEN {ClosePipe} ELSE {}

\* lines 1384-1390: running, the sockets closed, results
SniffEnd ==
    /\ snf.pc = "fin"
    /\ \E os \in Drawn(sarg.opened_socket) :
          SniffStep([sarg EXCEPT !.opened_socket = os],
                    [snf EXCEPT !.pc = "end", !.running = FALSE,
                                !.closed = @ \cup ClosedAtEnd(snf, os),
                                !.results = "Sniffed"],
                    clr, shist)

\* stop(join), up to the call of self.stop_cb(): the default stop_cb of
\* __init__ does nothing, the one of _run writes to the control pipe (when
\* there is one and running is set) and clears continue_sniff
StopCall(j) ==
    /\ clr.pc = "idle"
    /\ clr.n < MaxStops
    /\ IF snf.running
       THEN SniffStep(sarg,
                      IF snf.cb
                      THEN [snf EXCEPT !.continue_sniff = "false",
                                       !.signalled = IF snf.pipe THEN TRUE ELSE @]
                      ELSE snf,
                      [clr EXCEPT !.pc = "stopchk", !.op = "stop", !.join = j,
                                  !.n = @ + 1, !.out = "none"],
                      [shist EXCEPT !.stopped = TRUE])
       ELSE SniffStep(sarg, snf,
                      [clr EXCEPT !.op = "stop", !.n = @ + 1,
                                  !.out = "NotRunning"],
                      shist)

\* stop, after stop_cb: `if self.continue_sniff: raise`, then join or return
StopCheck ==
    /\ clr.pc = "stopchk"
    /\ SniffStep(sarg, snf,
                 IF snf.continue_sniff = "unset"
                 THEN [clr EXCEPT !.pc = "idle", !.out = "AttributeError"]
                 ELSE IF snf.continue_sniff = "true"
                 THEN [clr EXCEPT !.pc = "idle", !.out = "Unsupported"]
                 ELSE IF clr.join
                 THEN [clr EXCEPT !.pc = "joining"]
                 ELSE [clr EXCEPT !.pc = "idle", !.out = "returned"],
                 shist)

\* join() called on its own
JoinCall ==
    /\ clr.pc = "idle"
    /\ clr.n < MaxStops
    /\ SniffStep(sarg, snf,
                 [clr EXCEPT !.pc = "joining", !.op = "join", !.n = @ + 1,
                             !.out = "none"],
                 shist)

\* join(): `if self.thread: self.thread.join()`, then the exception kept by
\* _run_catch is raised again; stop(join=True) returns self.results after it
Join ==
    /\ clr.pc = "joining"
    /\ sarg.async => snf.pc \in {"end", "raised"}
    /\ SniffStep(sarg, snf,
                 [clr EXCEPT !.pc = "idle",
                             !.out = IF snf.exception THEN "reraised"
                                     ELSE "returned"],
                 shist)

SniffNext ==
    \/ RunBegin
    \/ InstallStopCb
    \/ SetContinueSniff
    \/ SniffLoopTest
    \/ SniffTimeoutBreak
    \/ SniffSelect
    \/ SniffForEnd
    \/ \E b \in Batches : SniffRecv(b)
    \/ SniffRecvEOF
    \/ SniffRecvError
    \/ SniffPacket
    \/ \E w \in Range(Callbacks) : SniffCallbackError(w)
    \/ SniffInterrupt
    \/ SniffEnd
    \/ \E j \in BOOLEAN : StopCall(j)
    \/ StopCheck
    \/ JoinCall
    \/ Join

SniffSpec == SniffInit /\ [][SniffNext]_vars

\* ============================================================ the bridge
\* bridge_and_sniff: two sockets, each sniffed, each packet handed to prn
MaxBridged == 2

BridgePkts == {1, 2}

\* the argument of send when the transform returned None
NonePkt == 0

\* the packet a transform returns in place of p
Rewrite(p) == p + 2

BridgeSocks == {1, 2}

\* _init_socket: the label of a socket in the opened_socket dictionary
Label(s) == IF s = 1 THEN "if1" ELSE "if2"

\* peers = {if1: sckt2, if2: sckt1}
Peers(l) == IF l = "if1" THEN 2 ELSE 1

barg == sniffer.arg

brg == sniffer.obj

bhist == sniffer.hist

\* xfrms[if1] = xfrm12, xfrms[if2] = xfrm21, each only when it is given
Xfrms == {l \in {"if1", "if2"} :
            IF l = "if1" THEN barg.xfrm12 ELSE barg.xfrm21}

BridgeConfigs ==
    { [xfrm12 |-> a, xfrm21 |-> b, prn |-> u, debug |-> d] :
        a \in BOOLEAN, b \in BOOLEAN, u \in BOOLEAN, d \in BOOLEAN }

BridgeNew == [pc |-> "new", socks |-> {}, closed |-> {}, n |-> 0]

BridgeInit ==
    /\ CoordInit
    /\ cfg = [multi |-> FALSE, threaded |-> FALSE, isflood |-> FALSE,
              timeout |-> NoTimeout, chainCC |-> "unread",
              chainEX |-> "unread", stopOn |-> {}, retry |-> 0,
              pkt |-> << >>, maxretries |-> NoMaxretries]
    /\ wrap = SrOpen
    /\ sniffer \in [arg : BridgeConfigs, obj : {BridgeNew}, clr : {"none"},
                   hist : {<< >>}]

\* what a transform does with a packet: it returns True, False, None or a
\* packet, or it raises
XfrmOutcomes == {"true", "false", "none", "pkt", "raise"}

\* `isinstance(_newpkt, bool)`
IsBool(x) == x \in {"true", "false"}

\* the value the transform returned
XfrmValue(p, x) ==
    IF x = "pkt" THEN Rewrite(p) ELSE IF x = "none" THEN NonePkt ELSE p

\* the call of send on the peer socket, made by prn_send
SendCall(l, a, ok) == [fn |-> "send", sock |-> Peers(l), arg |-> a, ok |-> ok]

XfrmRaisedEscapes == [calls |-> << >>, raised |-> TRUE]

\* `except Exception` around the transform: a warning, and prn_send returns
XfrmRaised == [calls |-> << >>, raised |-> FALSE]

\* prn_send(pkt): the calls it makes and whether an exception leaves it
\* l: pkt.sniffed_on, x: the outcome of the transform, sd: send returned;
\* an exception of send is caught and logged
PrnSend(p, l, x, sd) ==
    IF l \notin Xfrms
    THEN [calls |-> << SendCall(l, p, sd) >>, raised |-> FALSE]
    ELSE IF x = "raise"
    THEN XfrmRaised
    ELSE IF IsBool(x)
    THEN IF x = "false"
         THEN [calls |-> << >>, raised |-> FALSE]
         ELSE [calls |-> << SendCall(l, p, sd) >>, raised |-> FALSE]
    ELSE [calls |-> << SendCall(l, XfrmValue(p, x), sd) >>, raised |-> FALSE]

\* the prn handed to sniff: prn_send alone, or prn_send and then prn_orig
\* u: prn_orig returned
Prn(p, l, x, sd, u) ==
    LET f == PrnSend(p, l, x, sd)
    IN  IF f.raised \/ ~barg.prn
        THEN f
        ELSE [calls |-> Append(f.calls,
                               [fn |-> "prn", sock |-> 0, arg |-> p, ok |-> u]),
              raised |-> ~u]

BridgeStep(o, h) == SniffStep(barg, o, "none", h)

\* the two sockets are opened and sniff is entered
BridgeBegin ==
    /\ brg.pc = "new"
    /\ BridgeStep([brg EXCEPT !.pc = "select", !.socks = BridgeSocks], bhist)

\* one packet of a socket of the sniff set: sniffed_on is set, prn is called,
\* and an exception that leaves prn closes the socket and evicts it, or
\* leaves sniff when conf.debug_dissector >= 2
BridgePacket(s, p, x, sd, u) ==
    /\ brg.pc = "select"
    /\ s \in brg.socks
    /\ brg.n < MaxBridged
    /\ Label(s) \notin Xfrms => x = "true"
    /\ LET f == PrnSend(p, Label(s), x, sd)
           r == Prn(p, Label(s), x, sd, u)
       IN  /\ f.calls = << >> => sd
           /\ (f.raised \/ ~barg.prn) => u
           /\ BridgeStep(
                [brg EXCEPT !.n = @ + 1,
                   !.pc = IF r.raised /\ barg.debug THEN "raised" ELSE @,
                   !.socks = IF r.raised /\ ~barg.debug THEN @ \ {s} ELSE @,
                   !.closed = IF r.raised THEN @ \cup {s} ELSE @],
                Append(bhist, [sock |-> s, pkt |-> p,
                               x |-> IF Label(s) \in Xfrms THEN x ELSE "absent",
                               calls |-> r.calls, raised |-> r.raised]))

\* sniff returns: its count, its timeout, an interrupt, or no socket left
BridgeEnd ==
    /\ brg.pc = "select"
    /\ BridgeStep([brg EXCEPT !.pc = "end"], bhist)

BridgeNext ==
    \/ BridgeBegin
    \/ \E s \in BridgeSocks, p \in BridgePkts, x \in XfrmOutcomes,
          sd \in BOOLEAN, u \in BOOLEAN : BridgePacket(s, p, x, sd, u)
    \/ BridgeEnd

BridgeSpec == BridgeInit /\ [][BridgeNext]_vars

\* ======================================================= the send engine
\* __gen_send and _send: the packets of x sent on a socket, pass after pass
MaxGenSends == 4

\* `p = None`, and the sent_time of a packet that no socket has stamped
NoPkt == 0

NoSentTime == 0

garg == sniffer.arg

gen == sniffer.obj

ghist == sniffer.hist

\* count is absent (None) or a number of passes; loop is 0 by default
GenConfigs ==
    { [x |-> x, hascount |-> hc, count |-> c, loop |-> l,
       return_packets |-> rp, need_closing |-> nc] :
        x \in {<< >>, <<1>>, <<1, 2>>}, hc \in BOOLEAN, c \in {0, 1, 2},
        l \in {-2, 0, 1}, rp \in BOOLEAN, nc \in BOOLEAN }

GenNew ==
    [pc |-> "new", loop |-> 0, i |-> 0, p |-> NoPkt, psent |-> NoSentTime,
     sent_packets |-> << >>, n |-> 0, xsent |-> NoSentTime, clock |-> 0,
     exc |-> "none", results |-> "unset", socket |-> "open"]

GenHistoryNew == [wire |-> << >>, last |-> NoSentTime, ctrlc |-> FALSE]

GenInit ==
    /\ CoordInit
    /\ cfg = [multi |-> FALSE, threaded |-> FALSE, isflood |-> FALSE,
              timeout |-> NoTimeout, chainCC |-> "unread",
              chainEX |-> "unread", stopOn |-> {}, retry |-> 0,
              pkt |-> << >>, maxretries |-> NoMaxretries]
    /\ wrap = SrOpen
    /\ sniffer \in [arg : {a \in GenConfigs : ~a.hascount => a.count = 0},
                   obj : {GenNew}, clr : {"none"}, hist : {GenHistoryNew}]

GenStep(o, h) == SniffStep(garg, o, "none", h)

\* `if count is not None: loop = -count`, `elif not loop: loop = -1`
LoopOfLoopOnly(hc, c, l) == IF l = 0 THEN -1 ELSE l

LoopOf(hc, c, l) == IF hc THEN -c ELSE IF l = 0 THEN -1 ELSE l

\* lines 390-397
GenBegin ==
    /\ gen.pc = "new"
    /\ GenStep([gen EXCEPT !.pc = "while",
                  !.loop = LoopOf(garg.hascount, garg.count, garg.loop)],
               ghist)

\* `while loop:`, and the iterator of `for p in x`
GenWhile ==
    /\ gen.pc = "while"
    /\ GenStep([gen EXCEPT !.pc = IF gen.loop # 0 THEN "for" ELSE "finally",
                           !.i = 0],
               ghist)

\* `for p in x`: the next packet, or the end of the pass and
\* `if loop < 0: loop += 1`
GenFor ==
    /\ gen.pc = "for"
    /\ IF gen.i < Len(garg.x)
       THEN GenStep([gen EXCEPT !.pc = "send", !.i = @ + 1,
                                !.p = garg.x[gen.i + 1],
                                !.psent = NoSentTime],
                    ghist)
       ELSE GenStep([gen EXCEPT !.pc = "while",
                                !.loop = IF @ < 0 THEN @ + 1 ELSE @],
                    ghist)

\* the socket stamps the sent_time of a packet with the time of its send
Stamp(o) == [o EXCEPT !.clock = @ + 1, !.psent = o.clock + 1]

\* sent_packets.append(p), when return_packets
AppendSent(o) ==
    IF garg.return_packets
    THEN [o EXCEPT !.sent_packets = Append(@, o.p)]
    ELSE o

\* `s.send(p)` returns, raises or is interrupted: when it returns the packet
\* is on the wire and stamped, then appended and counted (lines 408-411);
\* when it does not, the socket may have stamped the packet already (st)
GenSend(r, st) ==
    /\ gen.pc = "send"
    /\ Len(ghist.wire) < MaxGenSends
    /\ r = "returned" => st
    /\ LET o == IF st THEN Stamp(gen) ELSE gen
       IN  IF r = "returned"
           THEN GenStep([AppendSent(o) EXCEPT !.pc = "sleep", !.n = @ + 1],
                        [ghist EXCEPT !.wire = Append(@, gen.p),
                                      !.last = o.psent])
           ELSE GenStep([o EXCEPT !.pc = "finally",
                           !.exc = IF r = "raised" THEN "error" ELSE "none"],
                        [ghist EXCEPT !.ctrlc = @ \/ r = "interrupted"])

\* `time.sleep(inter)` returns, or is interrupted (`except KeyboardInterrupt`)
GenSleep(ki) ==
    /\ gen.pc = "sleep"
    /\ GenStep([gen EXCEPT !.pc = IF ki THEN "finally" ELSE "for"],
               [ghist EXCEPT !.ctrlc = @ \/ ki])

\* finally: `x.sent_time = p.sent_time`, AttributeError when p is None;
\* then the exception of send goes on, or sent_packets is returned
GenFinally ==
    /\ gen.pc = "finally"
    /\ GenStep([gen EXCEPT
                  !.xsent = IF gen.p = NoPkt THEN @ ELSE gen.psent,
                  !.pc = IF gen.exc = "error" THEN "raised" ELSE "returned",
                  !.results = IF gen.exc = "error" THEN @
                              ELSE IF garg.return_packets THEN "list"
                              ELSE "None"],
               ghist)

\* _send after __gen_send returned: `if need_closing: socket.close()`
SendReturn ==
    /\ gen.pc = "returned"
    /\ GenStep([gen EXCEPT !.pc = "done",
                  !.socket = IF garg.need_closing THEN "closed" ELSE @],
               ghist)

GenNext ==
    \/ GenBegin
    \/ GenWhile
    \/ GenFor
    \/ \E r \in {"returned", "raised", "interrupted"}, st \in BOOLEAN :
          GenSend(r, st)
    \/ \E ki \in BOOLEAN : GenSleep(ki)
    \/ GenFinally
    \/ SendReturn

GenSpec == GenInit /\ [][GenNext]_vars

\* ================================================================ claims
\* the stimuli of the pairs of ans, and the pairs of one stimulus
AnsStimuli == {ans[n][1] : n \in DOMAIN ans}

PairsOf(s) == {n \in DOMAIN ans : ans[n][1] = s}

IsPrefix(a, b) == Len(a) <= Len(b) /\ SubSeq(b, 1, Len(a)) = a

\* the sr family has returned its two lists, made of ans and remain
Returned == pcM = "done"

C2_AtMostOnePair ==
    ~cfg.multi => \A s \in Stimuli : Cardinality(PairsOf(s)) <= 1

\* the number of times stimulus s was put in the table in the current pass
TimesInserted(s) == Len(SelectSeq(hist.pins, LAMBDA p : p = s))

\* C2, as the code has it: in single-answer mode without flood every
\* stimulus has at most one pair in ans over all retry passes; in flood mode
\* a stimulus has at most one pair for each time it was put in the table;
\* and a dispatched packet that is not paired (a second reply to an answered
\* stimulus among them) is counted in nbrecv: once the dispatcher has
\* returned, every packet handed to it so far is either a pair of ans or one
\* unit of nbrecv.
C2_AtMostOnePairNoFlood ==
    ~cfg.multi
        => /\ \A s \in Stimuli :
                  Cardinality(PairsOf(s)) <=
                      IF cfg.isflood THEN TimesInserted(s) ELSE 1
           /\ pcM # "check" /\ ~env.ctrlc => nbrecv + Len(ans) = hist.ndisp

\* reply 1 came twice for stimulus 1: one pair, one unsolicited packet
C2_Witness ==
    /\ ~cfg.multi /\ ~cfg.isflood
    /\ pcM = "loop"
    /\ hist.rcvd = {1} /\ hist.ndisp = 2
    /\ ans = << <<1, 1>> >>
    /\ nbrecv = 1

\* ---------------------------------------------------------------- C3
\* the dispatcher has just been handed reply sn'.r
RecvStep == pcM = "select" /\ pcM' = "check"

\* the stimuli of table hs with the fingerprint of reply r that r answers
Cands(hs, r) ==
    {s \in Stimuli : /\ Hashret[s] = ReplyHashret[r]
                     /\ Answers(r, s)
                     /\ \E n \in DOMAIN hs : s \in Range(hs[n].lst)}

\* C3 as the specification states it: for every reply r handed to the
\* dispatcher and every stimulus s in the table at that moment with
\* s.hashret() = r.hashret() and r.answers(s), the dispatch records (s, r).
C3_EveryCandidatePaired ==
    [][RecvStep =>
          \A s \in Cands(hsent, sn'.r) :
              \E n \in (Len(ans) + 1)..Len(ans') : ans'[n] = <<s, sn'.r>>]_vars

\* C3, as the code has it: for every reply r handed to the dispatcher, if
\* some stimulus in the table has r's fingerprint and is answered by r, the
\* dispatch records exactly one pair, (s, r) for one such stimulus s, and no
\* pair for the other such stimuli; if there is none it records nothing and
\* r is counted unsolicited.
C3_OneCandidatePaired ==
    [][RecvStep =>
          IF Cands(hsent, sn'.r) # {}
          THEN /\ \E s \in Cands(hsent, sn'.r) : ans' = Append(ans, <<s, sn'.r>>)
               /\ sn'.ok
          ELSE ans' = ans /\ ~sn'.ok]_vars

\* reply 3 answers stimuli 1 and 3, both in the table: it was paired with 1
\* and stimulus 3 is still outstanding
C3_Witness ==
    /\ pcM = "check"
    /\ sn.r = 3 /\ sn.ok
    /\ ans # << >> /\ ans[Len(ans)] = <<1, 3>>
    /\ 3 \in Cands(hsent, 3)

\* ---------------------------------------------------------------- C4
RECURSIVE IsSubseq(_, _)
IsSubseq(a, b) ==
    IF a = << >> THEN TRUE
    ELSE IF b = << >> THEN FALSE
    ELSE IF Head(a) = Head(b) THEN IsSubseq(Tail(a), Tail(b))
    ELSE IsSubseq(a, Tail(b))

\* the stimuli of fingerprint h in the order the current pass put them in
\* the table, each one just before its send
SendOrder(h) == SelectSeq(hist.pins, LAMBDA p : Hashret[p] = h)

\* the bucket of table hs for the fingerprint of reply r
Bucket(hs, r) ==
    IF HIndex(hs, ReplyHashret[r]) = 0 THEN << >>
    ELSE hs[HIndex(hs, ReplyHashret[r])].lst

\* C4: every bucket holds its stimuli in send order; a reply that is paired
\* is paired with the first stimulus of its fingerprint bucket that it
\* answers, the stimuli before it in the bucket being ones it does not
\* answer; and the pair is put at the end of ans, which otherwise never
\* changes, so ans is in the order the replies were dispatched.
C4_EarliestSentFirst ==
    /\ [](\A n \in DOMAIN hsent : IsSubseq(hsent[n].lst, SendOrder(hsent[n].h)))
    /\ [][RecvStep /\ sn'.ok =>
             \E i \in DOMAIN Bucket(hsent, sn'.r) :
                 /\ Answers(sn'.r, Bucket(hsent, sn'.r)[i])
                 /\ \A j \in 1..(i - 1) : ~Answers(sn'.r, Bucket(hsent, sn'.r)[j])
                 /\ ans' = Append(ans, <<Bucket(hsent, sn'.r)[i], sn'.r>>)]_vars
    /\ [][RecvStep \/ ans' = ans]_vars

\* reply 2 answers stimulus 3 only: stimulus 1, sent before it with the same
\* fingerprint, was skipped and is still first in the bucket, and the pair
\* came after the pair of an earlier reply
C4_Witness ==
    /\ pcM = "check"
    /\ sn.r = 2 /\ sn.ok
    /\ Len(ans) = 2 /\ ans[2] = <<3, 2>>
    /\ Bucket(hsent, 2) # << >> /\ Head(Bucket(hsent, 2)) = 1

\* ---------------------------------------------------------------- C5
\* reply r answers stimulus s and carries its fingerprint
Matches(r, s) == Answers(r, s) /\ Hashret[s] = ReplyHashret[r]

\* the receive socket delivered as many packets as stimuli were sent, and
\* for each sent stimulus a reply that answers it
OneReplyEach ==
    /\ hist.ndisp = Cardinality(hist.sent)
    /\ \A s \in hist.sent : \E r \in hist.rcvd : Matches(r, s)

AllAnsweredOnce ==
    /\ remain = << >>
    /\ \A s \in hist.sent : Cardinality(PairsOf(s)) = 1

\* a reply that answers only stimuli of its own fingerprint
Faithful == {r \in Replies : \A s \in Stimuli : Answers(r, s) => Matches(r, s)}

\* a reply that answers exactly one stimulus of the source
Exact ==
    {r \in Faithful : Cardinality({s \in Range(cfg.pkt) : Answers(r, s)}) = 1}

\* no send raised and no interrupt arrived
Undisturbed == ~env.fail /\ ~env.ctrlc

\* C5 as the specification states it: with a finite stimulus list and a
\* socket that delivers one answering reply for each sent stimulus, the
\* coordinator returns with unanswered empty and one pair per stimulus,
\* whatever the interleaving (here even without send failure or interrupt).
C5_RoundTrip ==
    Returned /\ ~cfg.isflood /\ Undisturbed
             /\ hist.rcvd \subseteq Faithful /\ OneReplyEach
        => AllAnsweredOnce

\* C5, as the code has it: with a finite stimulus list, no send failure and
\* no interrupt, and a socket that delivers for each sent stimulus one reply
\* that answers it and no other stimulus of the list, each dispatched while
\* its stimulus is outstanding, the coordinator returns with unanswered
\* empty and exactly one pair per stimulus, in every interleaving of sender
\* and sniffer.
C5_RoundTripExact ==
    Returned /\ ~cfg.isflood /\ Undisturbed
             /\ hist.rcvd \subseteq Exact /\ OneReplyEach /\ nbrecv = 0
        => AllAnsweredOnce

\* the round trip of stimuli 1 and 3 with the sender on its own thread: the
\* replies 1 and 2 paired them
C5_Witness ==
    /\ Returned /\ ~cfg.isflood /\ Undisturbed /\ cfg.threaded
    /\ hist.sent = {1, 3} /\ hist.rcvd = {1, 2} /\ hist.ndisp = 2
    /\ nbrecv = 0
    /\ Len(ans) = 2 /\ remain = << >>

\* ---------------------------------------------------------------- C6
\* a pass of the retry loop has ended and its remain list is made
PassEnded == pcM \in {"fin", "done"} \/ (pcM = "top" /\ hist.passes >= 1)

\* C6: in multi-answer mode every dispatched reply that answers a stimulus
\* of the table with its fingerprint is recorded as a pair of its own and
\* the table keeps the stimulus; after each pass the remain list holds no
\* stimulus that has a pair, and neither does the source of the next pass,
\* so that the sender never puts an answered stimulus back on the wire.
C6_MultiAnswer ==
    /\ [][cfg.multi /\ RecvStep /\ Cands(hsent, sn'.r) # {} =>
             /\ Len(ans') = Len(ans) + 1
             /\ ans'[Len(ans')][2] = sn'.r
             /\ ans'[Len(ans')][1] \in Cands(hsent, sn'.r)
             /\ hsent' = hsent]_vars
    /\ [](cfg.multi /\ PassEnded =>
             /\ Range(remain) \cap AnsStimuli = {}
             /\ Range(tobesent) \cap AnsStimuli = {})
    /\ [][cfg.multi /\ pcS = "next" /\ pcS' = "xmit" =>
             snd'.p \notin AnsStimuli]_vars

\* multi-answer mode: stimulus 1 got two pairs in the first pass and was not
\* part of the second pass, which resent the others
C6_Witness ==
    /\ cfg.multi /\ Returned
    /\ hist.passes = 2
    /\ Cardinality(PairsOf(1)) = 2
    /\ 1 \notin Range(hist.pins)
    /\ hist.pins # << >>

\* ---------------------------------------------------------------- C7
\* the sender of the current pass is between its start and the end of the
\* pass's bookkeeping
InPass == pcM \in {"cb", "cs", "loop", "select", "check", "join"}

\* C7: with retry = n >= 0 at most n + 1 passes are begun; when a pass after
\* the first is about to begin, its source is not empty and holds exactly
\* the stimuli the previous pass put on the wire and left unanswered; a pass
\* sends its source in order, all of it unless the pass is cut short by a
\* send failure, stop_filter or an interrupt; the pairs of ans are never
\* removed or reordered; and a pass that leaves nothing ends the loop.
C7_RetryPasses ==
    /\ [](cfg.retry >= 0 =>
            /\ hist.passes <= cfg.retry + 1
            /\ pcM = "top" /\ hist.passes >= 1 =>
                   /\ tobesent # << >>
                   /\ Range(tobesent) = Range(hist.pins) \ AnsStimuli
                   /\ Len(tobesent) = Cardinality(Range(tobesent))
            /\ InPass /\ ~cfg.isflood =>
                   /\ IsPrefix(hist.psent, tobesent)
                   /\ IsPrefix(hist.pins, tobesent)
            /\ Undisturbed /\ cfg.stopOn = {} /\ ~cfg.isflood => hist.whole
            /\ PassEnded /\ remain = << >> => pcM \in {"fin", "done"})
    /\ [][cfg.retry >= 0 => IsPrefix(ans, ans')]_vars

\* retry = 1: the first pass paired stimulus 1, the second pass resent 3 and
\* 2 and paired 3, the pair of the first pass is still there, and stimulus 2
\* is returned unanswered after the second and last pass
C7_Witness ==
    /\ cfg.retry = 1 /\ Returned
    /\ hist.passes = 2
    /\ hist.pins = <<3, 2>>
    /\ ans = << <<1, 1>>, <<3, 2>> >>
    /\ remain = <<2>>

\* ---------------------------------------------------------------- C8
\* no packet was ever handed to the dispatcher
NoReply == hist.ndisp = 0

\* C8 as the specification states it: with retry = -k, k > 0, a coordinator
\* that never receives any reply performs exactly one send pass (here even
\* without send failure or interrupt).
C8_AutostopOnePass ==
    Returned /\ cfg.retry < 0 /\ NoReply /\ Undisturbed => hist.passes = 1

\* C8, as the code has it: with retry = -k, k > 0, no send failure and no
\* interrupt, a coordinator that never receives any reply and has at least
\* one stimulus performs exactly k + 1 send passes, the first and k retries,
\* and returns every stimulus unanswered.
C8_AutostopBudgetPasses ==
    cfg.retry < 0 /\ NoReply /\ Undisturbed =>
        /\ hist.passes <= Autostop + 1
        /\ Returned /\ cfg.pkt # << >> =>
               /\ hist.passes = Autostop + 1
               /\ Range(remain) = Range(cfg.pkt)

\* retry = -1 and silence: the call returned after two passes of three
\* stimuli
C8_Witness ==
    /\ Returned /\ cfg.retry = -1 /\ NoReply /\ Undisturbed
    /\ Len(cfg.pkt) = 3
    /\ hist.passes = 2
    /\ hist.pins # << >>
    /\ Len(remain) = 3

\* ---------------------------------------------------------------- C9
Max(a, b) == IF a >= b THEN a ELSE b

\* C9 as the specification states it: with retry = -k, k > 0, a coordinator
\* that receives at least one reply in each pass performs at most k + 1
\* passes, whatever the number of stimuli (here even without send failure,
\* interrupt or stop_filter): every pass ended so far was handed a reply,
\* and every reply was paired.
C9_AutostopAtMostBudget ==
    cfg.retry < 0 /\ hist.fed /\ nbrecv = 0 /\ Undisturbed /\ cfg.stopOn = {}
        => hist.passes <= Autostop + 1

\* C9, as the code has it: with retry = -k, k > 0, every pass that leaves
\* some but not all of its stimuli sets the budget back to k, so a
\* coordinator that receives replies in each pass can perform more than
\* k + 1 passes: with n stimuli it performs at most 1 + k * max(1, n)
\* passes, the budget left never exceeds k, and it is set back only by a
\* pass that left fewer stimuli than it was given.
C9_AutostopBoundByStimuli ==
    /\ [](cfg.retry < 0 =>
            /\ hist.passes <= 1 + Autostop * Max(1, Len(cfg.pkt))
            /\ retry <= Autostop)
    /\ [][cfg.retry < 0 /\ retry' > retry - 1 /\ pcM' = "top" =>
             Len(tobesent') < Len(tobesent)]_vars

\* retry = -1 and three stimuli: a third pass has begun after two passes
\* that each received a reply and paired a stimulus
C9_Witness ==
    /\ cfg.retry = -1 /\ Len(cfg.pkt) = 3
    /\ hist.fed /\ nbrecv = 0 /\ Undisturbed /\ cfg.stopOn = {}
    /\ hist.passes = 3
    /\ Len(ans) = 2
    /\ Len(tobesent) = 1

\* --------------------------------------------------------------- C10
\* The calls C10 is about: the sender on its own thread, a finite timeout,
\* retry >= 0, no flood. The steps of the calling thread and of the sender
\* thread are taken whenever they stay possible (both threads are
\* scheduled, and breakout.wait(timeout) returns); the arrival of a packet,
\* the failure of a send and an interrupt are left to the environment.
LiveInit ==
    /\ Init
    /\ cfg.threaded /\ ~cfg.isflood
    /\ HasTimeout
    /\ cfg.retry >= 0

MainStep ==
    \/ StartPass
    \/ SetContinue
    \/ LoopTest
    \/ SelectStop
    \/ ProcessCheck
    \/ JoinPost
    \/ Finish

SenderStep ==
    \/ SndNext
    \/ SndSend
    \/ SndCheckBreak
    \/ SndFinally
    \/ SndStopIfDone
    \/ SndRecheck
    \/ SndWake

EnvStep ==
    \/ \E r \in Replies : Recv(r)
    \/ SndSendRaise
    \/ Interrupt
    \/ InterruptJoin

LiveNext == MainStep \/ SenderStep \/ EnvStep

LiveSpec ==
    /\ LiveInit
    /\ [][LiveNext]_vars
    /\ WF_vars(MainStep)
    /\ WF_vars(SenderStep)

\* C10: with threaded=True, a finite timeout, a finite stimulus list and
\* retry >= 0, every run of the coordinator eventually returns or raises,
\* whether or not a send raises and for both values of chainEX.
C10_EventuallyReturns == <>(pcM \in {"done", "raised"})

\* --------------------------------------------------------------- C11
\* the coordinator was left by an exception that is not the exception of a
\* send: by a KeyboardInterrupt
LeftByInterrupt == pcM = "raised" /\ env.ctrlc /\ (Threaded \/ pcS # "raised")

\* C11: a user interrupt during a coordinator pass leaves the coordinator
\* by an exception only when chainCC is set; with chainCC false it is
\* absorbed and the coordinator goes on to return its result lists, in the
\* threaded and in the non-threaded path.
C11_InterruptForwardedOnlyIfChainCC ==
    LeftByInterrupt => cfg.chainCC = "yes"

\* ---------------------------------------------------------------- C12
\* _run of the standalone sniffer has returned
RunReturned == snf.pc = "end"

\* the packets lfilter let through, in the order they were handed to it
PassesLfilter(p) == p \notin sarg.lfilter

Accepted == SelectSeq(shist.seen, PassesLfilter)

\* the loop was left for one of the causes the specification lists: the flag
\* cleared by a stop() or by stop_filter or the quota, the timeout, or no
\* data socket left
ExitCauseListed ==
    \/ /\ shist.cause = "flag"
       /\ snf.continue_sniff = "false"
       /\ shist.stopped \/ shist.fired > 0
    \/ shist.cause = "timeout" /\ sarg.timeout
    \/ shist.cause = "nosocket" /\ snf.socks = {}

\* the loop was left by an interrupt that _run absorbed
ExitByInterrupt == shist.cause = "interrupt" /\ sarg.chainCC = "no"

\* C12 as the specification states it: _run returns only when an external
\* stop was requested, stop_filter was true for an accepted packet, the
\* count quota was reached, the timeout elapsed, or every data socket was
\* closed; in no other state does it return.
C12_ReturnsOnlyOnListedCause ==
    RunReturned => ExitCauseListed

\* C12, as the code has it: _run returns only for one of the listed causes
\* or because an interrupt reached the loop while chainCC was false.
C12_ReturnsOnListedCauseOrInterrupt ==
    RunReturned => ExitCauseListed \/ ExitByInterrupt

C12_Witness ==
    /\ RunReturned
    /\ ExitByInterrupt
    /\ ~shist.stopped /\ shist.fired = 0 /\ snf.socks # {}
    /\ Len(Accepted) > 0

\* ---------------------------------------------------------------- C13
\* the steps of the thread that runs _run, and those of the thread that
\* calls stop() or join(): both threads are scheduled, and a recv on a
\* socket that select reported ready returns. When packets arrive, when the
\* timeout elapses and when the user interrupts is up to the world.
SnifferStep ==
    \/ RunBegin
    \/ InstallStopCb
    \/ SetContinueSniff
    \/ SniffLoopTest
    \/ SniffSelect
    \/ SniffForEnd
    \/ \E b \in Batches : SniffRecv(b)
    \/ SniffRecvEOF
    \/ SniffRecvError
    \/ SniffPacket
    \/ SniffEnd

CallerStep ==
    \/ StopCheck
    \/ Join

SniffLive ==
    /\ SniffInit
    /\ [][SniffNext]_vars
    /\ WF_vars(SnifferStep)
    /\ WF_vars(CallerStep)

\* C13: an external stop is never lost: once stop() has been called on a
\* sniffer whose running flag is true, at any point after _run began, and
\* has returned, the loop eventually exits (_run returns with running false,
\* or is left by an exception).
C13_StopNeverLost ==
    (shist.stopped /\ clr.out = "returned") ~> snf.pc \in {"end", "raised"}

\* ---------------------------------------------------------------- C14
\* _run has returned because the count quota was reached
StoppedOnQuota ==
    /\ RunReturned
    /\ shist.cause = "flag"
    /\ sarg.count > 0 /\ snf.count >= sarg.count

\* C14: with count = N > 0, any number of sockets and any session, a sniffer
\* that stops on its quota has accepted exactly N packets: sniffer.count is N
\* when _run returns, and exactly N packets are stored when store is set.
C14_QuotaExact ==
    StoppedOnQuota =>
        /\ snf.count = sarg.count
        /\ sarg.store => Len(snf.lst) = sarg.count

\* ---------------------------------------------------------------- C15
\* stop_filter was true for an accepted packet, or the quota was reached
Fired == shist.fired > 0

\* C15: once stop_filter has returned true for an accepted packet, or the
\* quota is reached, no further packet is read, accepted, stored or passed
\* to prn, in the same batch or from another socket of the same select
\* result.
C15_NothingAfterStop ==
    [][Fired =>
         /\ shist.read' = shist.read
         /\ shist.seen' = shist.seen
         /\ shist.prn' = shist.prn
         /\ snf.lst' = snf.lst
         /\ snf.count' = snf.count]_vars

\* ---------------------------------------------------------------- C16
\* C16: in every state count is the number of packets that passed lfilter; a
\* packet lfilter rejected is never counted, stored, passed to prn or tested
\* by stop_filter (the packets tested are the accepted ones, but for one
\* whose prn raised); when store is set the returned list holds exactly the
\* accepted packets, in acceptance order.
C16_CountIsAccepted ==
    /\ snf.count = Len(Accepted)
    /\ shist.prn = Accepted
    /\ IsSubseq(shist.tested, Accepted)
    /\ shist.cberr # "prn" => shist.tested = Accepted
    /\ snf.lst = IF sarg.store THEN Accepted ELSE << >>
    /\ RunReturned => snf.results = "Sniffed"

C16_Witness ==
    /\ RunReturned
    /\ sarg.store
    /\ Len(Accepted) = 2
    /\ Len(shist.seen) = 3
    /\ Accepted[1] # Accepted[2]

\* ---------------------------------------------------------------- C17
\* C17: an end of stream, or another error raised while a socket is read
\* with the dissector debugging off, closes the socket and evicts it: when
\* the loop tests its condition again the socket is no longer among the
\* sniffed sockets. The sniffer goes on with the other sockets, and it never
\* enters select without a data socket: the control pipe is deleted with the
\* last data socket, so that the loop ends.
C17_DeadSocketEvicted ==
    /\ shist.evicted \subseteq snf.closed
    /\ snf.pc \in {"loop", "select"} => snf.socks \cap shist.evicted = {}
    /\ snf.pc \in {"loop", "select"} /\ snf.socks = {} => ~snf.pipe
    /\ snf.pc = "select" => snf.socks # {}
    /\ snf.pc = "for" /\ shist.evicted # {} =>
          \A n \in DOMAIN snf.sockets : snf.sockets[n] \notin shist.evicted

C17_Witness ==
    /\ RunReturned
    /\ shist.cause = "nosocket"
    /\ sarg.blocking /\ sarg.nsock = 2
    /\ sarg.debug = "no"
    /\ shist.evicted = {1, 2}
    /\ ~shist.stopped /\ ~Fired

\* ---------------------------------------------------------------- C18
\* a step in which a call of stop() ends with the given outcome
StopEnds(o) == clr'.op = "stop" /\ clr'.out = o /\ (clr.out # o \/ clr'.n # clr.n)

\* C18: stop() returns normally only if the sniffer was running when it was
\* called and continue_sniff is false when it returns; on a sniffer that is
\* not running it fails with 'Not running' and changes nothing; when
\* continue_sniff is still true after the stop callback it fails with
\* 'Unsupported'.
C18_StopOutcomes ==
    [][/\ StopEnds("returned") =>
             shist.stopped /\ snf'.continue_sniff = "false"
       /\ StopEnds("NotRunning") => ~snf.running /\ snf' = snf
       /\ StopEnds("Unsupported") =>
             shist.stopped /\ snf.continue_sniff = "true"
       /\ (clr.pc = "idle" /\ clr'.op = "stop" /\ clr'.n # clr.n /\ ~snf.running)
             => clr'.out = "NotRunning"]_vars

\* ---------------------------------------------------------------- C19
\* a call that waits for the worker (join(), or stop() with join=True) has
\* ended
Joined ==
    /\ clr.pc = "idle"
    /\ clr.out \in {"returned", "reraised"}
    /\ clr.op = "join" \/ (clr.op = "stop" /\ clr.join)

\* C19: in the asynchronous form an exception raised by the sniff loop on the
\* worker does not escape: it is kept in the sniffer, and join(), hence
\* stop() with join=True, raises it again.
C19_WorkerExceptionKept ==
    sarg.async =>
        /\ snf.pc = "raised" <=> snf.exception
        /\ Joined => snf.pc \in {"end", "raised"}
        /\ Joined => (clr.out = "reraised" <=> snf.exception)

C19_Witness ==
    /\ sarg.async
    /\ snf.exception
    /\ Joined
    /\ clr.op = "stop"
    /\ clr.out = "reraised"

\* ---------------------------------------------------------------- C20
\* the wrapper is over: the coordinator returned, or left by an exception
\* that the wrapper lets through
WrapperLeft == pcM \in {"done", "raised"}

\* C20: the wrappers that open a socket themselves (sr, srp, srflood,
\* srpflood, sr1flood, srp1flood) close it on every exit path, the one on
\* which the coordinator raises an interrupt again (chainCC) or a send
\* raises included.
C20_SocketClosedOnEveryExit ==
    WrapperLeft => wrap = SrClose

\* ------------------------------------------------------------------ C21
\* the send calls the bridge made for one received packet
SendsOf(h) == SelectSeq(h.calls, LAMBDA c : c.fn = "send")

PeerOf(s) == IF s = 1 THEN 2 ELSE 1

\* C21: a packet received on one side is sent only on the peer socket,
\* never on its ingress socket: once and unchanged when its direction has no
\* transform or the transform returned True, once as the returned packet when
\* the transform returned a packet, and not at all when the transform returned
\* False or None
C21_ForwardRule ==
    \A i \in DOMAIN bhist :
        LET h == bhist[i]
            s == SendsOf(h)
        IN  /\ \A k \in DOMAIN s : s[k].sock = PeerOf(h.sock)
            /\ h.x \in {"absent", "true"} =>
                   Len(s) = 1 /\ s[1].arg = h.pkt
            /\ h.x = "pkt" => Len(s) = 1 /\ s[1].arg = Rewrite(h.pkt)
            /\ h.x \in {"false", "none"} => s = << >>

\* ------------------------------------------------------------------ C22
\* the transform of the packet raised, or its send on the peer socket did
ForwardFailed(h) ==
    \/ h.x = "raise"
    \/ \E k \in DOMAIN h.calls : h.calls[k].fn = "send" /\ ~h.calls[k].ok

\* the user's prn was called for the packet, as the last call made for it
PrnCalledLast(h) ==
    IF h.calls = << >> THEN FALSE
    ELSE LET c == h.calls[Len(h.calls)] IN c.fn = "prn" /\ c.arg = h.pkt

\* the user's prn raised on a packet of socket s
PrnRaisedOn(s) ==
    \E i \in DOMAIN bhist :
        LET h == bhist[i]
        IN  /\ h.sock = s
            /\ PrnCalledLast(h)
            /\ ~h.calls[Len(h.calls)].ok

\* C22: an exception of a transform or of the send on the peer socket does
\* not abort the bridge: the packet is not forwarded, no exception leaves the
\* hook, the user's prn is still called for the packet, after the forward
\* hook, and a socket is closed or evicted, or sniff left, only when the
\* user's own prn raised on it
C22_ForwardFailureKeepsBridge ==
    /\ \A i \in DOMAIN bhist :
         LET h == bhist[i]
         IN  ForwardFailed(h) =>
               /\ \A k \in DOMAIN h.calls :
                     h.calls[k].fn = "send" => ~h.calls[k].ok
               /\ barg.prn => PrnCalledLast(h)
               /\ h.raised => PrnRaisedOn(h.sock)
    /\ \A s \in BridgeSocks :
         (s \in brg.closed \/ (brg.pc # "new" /\ s \notin brg.socks))
            => PrnRaisedOn(s)
    /\ brg.pc = "raised" => \E s \in BridgeSocks : PrnRaisedOn(s)

\* a transform raised on one packet and a send on another, the user's prn
\* was called for both and both sockets are still sniffed
C22_Witness ==
    /\ barg.prn
    /\ brg.socks = BridgeSocks
    /\ brg.closed = {}
    /\ \E i, j \in DOMAIN bhist :
         /\ bhist[i].x = "raise"
         /\ bhist[j].x # "raise" /\ ForwardFailed(bhist[j])
         /\ PrnCalledLast(bhist[i]) /\ PrnCalledLast(bhist[j])

\* ------------------------------------------------------------------ C23
RECURSIVE Repeat(_, _)
Repeat(x, k) == IF k <= 0 THEN << >> ELSE x \o Repeat(x, k - 1)

\* count is absent and loop is positive: the passes go on until interrupted
Endless == ~garg.hascount /\ garg.loop > 0

\* the number of passes the arguments fix
Passes ==
    IF garg.hascount THEN garg.count
    ELSE IF garg.loop = 0 THEN 1 ELSE -garg.loop

GenReturned == gen.pc \in {"returned", "done"}

GenLeft == gen.pc \in {"returned", "raised", "done"}

\* C24: on every exit of the send engine (normal end, interrupt, or a send
\* that raised) the sent_time of the packet source is the sent_time of the
\* last packet that was transmitted
C24_SentTimeOfLastTransmitted ==
    (GenLeft /\ ghist.wire # << >>) => gen.xsent = ghist.last

\* ------------------------------------------------------------------ C25
\* a flood call that got no reply and an interrupt has returned
FloodCancelled ==
    /\ cfg.isflood
    /\ env.ctrlc
    /\ hist.rcvd = {}
    /\ pcM = "done"

\* C25: when a flood call against a socket that never replies, cancelled by
\* an interrupt, returns, the sender thread has ended and the running flag
\* of the sniffer is false
C25_FloodCancelledLeavesNothingRunning ==
    FloodCancelled => pcS \in {"exit", "raised"} /\ ~sn.running

\* ------------------------------------------------------------------ C26
\* the flood generator returned at its test of maxretries
FloodEndedByItself == cfg.isflood /\ ~flood.mid /\ flood.i > 0

\* C26: the flood generator yields the packets of its source in repeated
\* cycles, in order; it ends by itself only when maxretries is set, and then
\* it has yielded exactly maxretries full cycles
C26_FloodCycles ==
    cfg.isflood =>
        /\ IsPrefix(hist.pins, Repeat(cfg.pkt, MaxFloodSends + 1))
        /\ FloodEndedByItself =>
               /\ cfg.maxretries > 0
               /\ hist.pins = Repeat(cfg.pkt, cfg.maxretries)

\* ------------------------------------------------------------------ C27
\* stimulus s is in the outstanding table under its fingerprint
InTable(s) ==
    LET n == HIndex(hsent, Hashret[s])
    IN  IF n = 0 THEN FALSE ELSE s \in Range(hsent[n].lst)

\* C27: in every pass the stimuli transmitted are stimuli inserted before, in
\* the order of their insertion; the stimulus the sender is about to transmit
\* and those it transmitted in this pass are in the table of the pass under
\* their fingerprint, unless the dispatcher has paired them since
C27_InsertedBeforeSent ==
    /\ IsPrefix(hist.psent, hist.pins)
    /\ pcS = "xmit" =>
          /\ Len(hist.pins) = Len(hist.psent) + 1
          /\ hist.pins[Len(hist.pins)] = snd.p
          /\ InTable(snd.p) \/ snd.p \in AnsStimuli
    /\ \A s \in Range(hist.psent) : InTable(s) \/ s \in AnsStimuli

\* in a retry pass the dispatcher has paired a reply while the sender is
\* between the insertion of a stimulus and its transmission
C27_Witness ==
    /\ hist.passes = 2
    /\ Threaded
    /\ pcS = "xmit"
    /\ hist.psent # << >>
    /\ pcM = "check"
    /\ sn.ok

\* ------------------------------------------------------------------ C28
\* select was entered, or a socket was read
SelectEntered == snf.pc \in {"select", "for", "pkts"} \/ snf.nrecv > 0

\* every socket the sniff asked for, and the control pipe when select blocks
WholeSniffSet ==
    (1..sarg.nsock) \cup (IF sarg.blocking THEN {ClosePipe} ELSE {})

\* C28: in a sniff invocation started_callback is called at most once, and
\* exactly once before the first select; when it is called every socket of
\* the sniff set, the control pipe included, is bound
C28_StartedOnceAfterBinding ==
    /\ shist.started <= 1
    /\ SelectEntered => shist.started = 1
    /\ shist.started = 1 => shist.cbset = WholeSniffSet

\* two sockets and the control pipe were bound when the callback was called,
\* and select has returned since
C28_Witness ==
    /\ shist.started = 1
    /\ shist.cbset = {ClosePipe, 1, 2}
    /\ snf.pc = "pkts"

\* ------------------------------------------------------------------ C29
\* The calls C29 is about: the sender on its own thread, one answer per
\* stimulus, no flood, no timeout. Both threads are scheduled; the only
\* event left to the environment is the arrival of a packet.
DoneInit ==
    /\ Init
    /\ cfg.threaded /\ ~cfg.isflood /\ ~cfg.multi
    /\ ~HasTimeout

PassSenderStep ==
    \/ SndNext
    \/ SndSend
    \/ SndCheckBreak
    \/ SndFinally
    \/ SndStopIfDone
    \/ SndRecheck

DoneNext ==
    \/ MainStep
    \/ PassSenderStep
    \/ \E r \in Replies : Recv(r)

DoneSpec ==
    /\ DoneInit
    /\ [][DoneNext]_vars
    /\ WF_vars(MainStep)
    /\ WF_vars(PassSenderStep)

\* the sender thread of the pass has ended and no stimulus is outstanding
SentAllAnswered ==
    /\ pcS \in {"exit", "raised"}
    /\ Chain(hsent) = << >>

\* the sniff loop of the pass is left
SniffLoopLeft == pcM \notin {"cs", "loop", "select", "check"}

\* C29: once the sender has finished and every stimulus it sent is answered,
\* the sniffer is eventually stopped and the pass ends, for every stimulus
\* list, the empty one included, and every interleaving of the dispatcher
\* with the completion steps of the sender
C29_AnsweredPassEnds == SentAllAnswered ~> SniffLoopLeft

\* ------------------------------------------------------------------ C30
\* _stop_sniffer_if_done is about to be run, by the dispatcher or by the
\* sender while the sniffer is in its loop, and its condition holds: it
\* stops the sniffer
RuleStops ==
    /\ pcM = "check" \/ (pcS = "stopchk" /\ pcM \in {"cs", "loop", "select"})
    /\ StopIfDone

\* the sender of the pass has left its loop over the stimuli
SenderLoopLeft == pcS \notin {"idle", "next", "xmit", "chk"}

\* C30: the completion rule stops the sniffer only when the sender of the
\* current pass has finished transmitting and no stimulus sent in the
\* current pass is still in the outstanding table, in every pass
C30_StopOnlyWhenPassComplete ==
    RuleStops =>
        /\ SenderLoopLeft
        /\ \A s \in Range(hist.psent) : ~InTable(s)

\* ------------------------------------------------------------------ C31
\* a step that leaves the sniff loop with no interrupt
LoopLeftStep ==
    /\ pcM \in {"loop", "select"}
    /\ pcM' = "join"
    /\ env'.ctrlc = env.ctrlc

\* C31: in the threaded path (threaded set, or flood) the sniffer has no
\* timeout of its own: its loop is left, without an interrupt, only once a
\* stop has cleared continue_sniff
C31_ThreadedSnifferNoTimeout ==
    [][(Threaded /\ LoopLeftStep) => ~sn.continue_sniff]_vars

\* C31, as the code has it: with threaded set and no flood the sniffer has no
\* timeout of its own, and the sender waits on breakout only after its
\* finally clause, with a timeout set
C31_ThreadedNoFloodSnifferNoTimeout ==
    [][/\ (cfg.threaded /\ ~cfg.isflood /\ LoopLeftStep) => ~sn.continue_sniff
       /\ pcS' = "waiting" => (send_done' /\ cfg.threaded /\ HasTimeout)]_vars

\* the sender woke from its wait and stopped a sniffer that had unanswered
\* stimuli, and the loop was left
C31_Witness ==
    /\ cfg.threaded /\ ~cfg.isflood /\ HasTimeout
    /\ cfg.stopOn = {}
    /\ ~env.ctrlc
    /\ pcS = "recheck2"
    /\ pcM = "join"
    /\ noans < notans

\* ------------------------------------------------------------------ C32
\* C32: in multi-answer mode noans is the number of distinct stimuli that
\* occur in the answered list, however many replies each collected and over
\* all passes
C32_MultiNoansCountsStimuli ==
    cfg.multi => noans = Cardinality(AnsStimuli)

\* a second pass in which one stimulus has collected two replies
C32_Witness ==
    /\ cfg.multi
    /\ hist.passes = 2
    /\ Len(ans) = 2
    /\ noans = 1
    /\ pcM = "loop"

\* ------------------------------------------------------------------ C33
\* the sockets of the sniff set that block
BlockingSocks == (1..sarg.nsock) \ sarg.nonblocking

\* C33: if any socket of the sniff set is blocking, wherever it stands in
\* the set, the set holds a control pipe when the loop is entered, and a
\* stop() that finds the sniffer in its select has written the sentinel
C33_BlockingSocketGetsPipe ==
    BlockingSocks # {} =>
        /\ shist.started > 0 => ClosePipe \in shist.cbset
        /\ (snf.pc = "select" /\ snf.continue_sniff = "false")
               => snf.signalled

\* ------------------------------------------------------------------ C34
\* the dispatcher has returned from the packet it was handed
DispatchEnd == pcM = "check" /\ pcM' = "loop"

\* C34: in single-answer mode noans is the length of the answered list in
\* every state; a packet that is matched takes exactly one stimulus out of
\* the table, adds one pair and one unit of noans and leaves nbrecv; a packet
\* that is not matched leaves noans, the answered list and the table and
\* adds one unit of nbrecv
C34_SingleAnswerCounters ==
    [][~cfg.multi =>
          /\ noans = Len(ans) /\ noans' = Len(ans')
          /\ RecvStep =>
                /\ nbrecv' = nbrecv
                /\ IF sn'.ok
                   THEN /\ Len(Chain(hsent')) = Len(Chain(hsent)) - 1
                        /\ Len(ans') = Len(ans) + 1
                        /\ noans' = noans + 1
                   ELSE /\ hsent' = hsent /\ ans' = ans /\ noans' = noans
          /\ DispatchEnd =>
                /\ hsent' = hsent /\ ans' = ans /\ noans' = noans
                /\ nbrecv' = IF sn.ok THEN nbrecv ELSE nbrecv + 1]_vars

\* the second pass of a single-answer call: one packet was matched, one was
\* not
C34_Witness ==
    /\ ~cfg.multi
    /\ hist.passes = 2
    /\ pcM = "loop"
    /\ noans = 1 /\ nbrecv = 1
    /\ Len(Chain(hsent)) = 1

\* ------------------------------------------------------------------ C35
\* the fingerprints of the stimuli of seq, each once, in the order of their
\* first occurrence
RECURSIVE FirstSeen(_)
FirstSeen(seq) ==
    IF seq = << >> THEN << >>
    ELSE <<Hashret[Head(seq)]>> \o
         FirstSeen(SelectSeq(Tail(seq),
                             LAMBDA p : Hashret[p] # Hashret[Head(seq)]))

\* seq grouped by fingerprint: the groups in the order of FirstSeen, each
\* group in the order of seq
RECURSIVE GroupsOf(_, _)
GroupsOf(fs, seq) ==
    IF fs = << >> THEN << >>
    ELSE SelectSeq(seq, LAMBDA p : Hashret[p] = Head(fs)) \o
         GroupsOf(Tail(fs), seq)

Grouped(seq) == GroupsOf(FirstSeen(seq), seq)

\* a pass is over and remain was computed from its table
RemainComputed == hist.passes > 0 /\ pcM \in {"top", "fin", "done"}

\* C35: the unanswered list is made of the buckets of the table one after
\* the other: what is left of the stimuli the last pass sent, grouped by
\* fingerprint in the order the fingerprints were first sent and in send
\* order inside a group; and the next pass resends in that order
C35_UnansweredInBucketOrder ==
    /\ RemainComputed =>
          /\ remain = Chain(hsent)
             \/ (cfg.multi /\ IsSubseq(remain, Chain(hsent)))
          /\ IsSubseq(remain, Grouped(hist.pins))
    /\ (hist.passes >= 2 /\ ~cfg.isflood /\ pcM \notin {"top", "fin", "done"})
          => IsPrefix(hist.psent, tobesent) /\ IsSubseq(hist.psent, remain)

\* stimuli 1 and 3 share a fingerprint and 2 was sent between them: the
\* second pass resends 1, 3, 2
C35_Witness ==
    /\ hist.passes = 2
    /\ pcM = "loop"
    /\ hist.psent = <<1, 3, 2>>
    /\ remain = <<1, 3, 2>>
    /\ cfg.pkt = <<1, 2, 3>>

\* ------------------------------------------------------------------ C36
\* the user interrupt arrives, and chainCC is false
InterruptStep == ~env.ctrlc /\ env'.ctrlc /\ cfg'.chainCC = "no"

\* the coordinator leaves the join of a pass that an interrupt ended
AfterInterruptStep ==
    /\ pcM = "join" /\ pcM' # "join"
    /\ env.ctrlc /\ cfg.chainCC = "no"

\* C36: a user interrupt with chainCC false ends only the pass in which it
\* occurs: the coordinator goes on to the end of the pass, and when some
\* sent stimulus is unanswered and retry is still >= 0 after the decrement
\* it goes back to the top of the loop for a further pass, else it returns
\* its lists
C36_InterruptEndsOnlyThePass ==
    [][/\ InterruptStep => pcM' = "join"
       /\ AfterInterruptStep =>
             pcM' = IF Len(remain') > 0 /\ retry' >= 0 THEN "top" ELSE "fin"]_vars

\* ------------------------------------------------------------------ C37
\* the send of stimulus snd.p raised in the sender of this pass and the
\* exception was swallowed (chainEX false)
SendFailedInPass == snd.exc /\ cfg.chainEX = "no"

\* the pass in which a send failed is over: remain is computed
FailedPassEnds == pcM = "join" /\ pcM' \in {"top", "fin"} /\ SendFailedInPass

\* the stimuli of the source of this pass that the sender did not reach
NotReached == Range(tobesent) \ Range(hist.pins)

\* C37 as the specification states it: when a send raises in the sender
\* with chainEX false the pass is aborted; the stimulus whose send failed is
\* in the unanswered list of the pass and in the source of a retry pass and
\* is not counted in notans; the stimuli after it in the source are neither
\* in answered nor in unanswered
C37_FailedSendReportedUnanswered ==
    /\ [][SendFailedInPass => hist'.pins = hist.pins \/ hist'.pins = << >>]_vars
    /\ [][FailedPassEnds =>
             /\ snd.p \in Range(remain')
             /\ pcM' = "top" => snd.p \in Range(tobesent')
             /\ NotReached \cap (Range(remain') \cup AnsStimuli) = {}]_vars
    /\ [](SendFailedInPass /\ hist.passes = 1 /\ ~cfg.isflood /\ send_done
             => notans = Len(hist.pins) - 1)

\* C37, as the code has it: the stimulus whose send failed is in the table,
\* where a packet that answers it can still be paired with it; unless that
\* happened it is in the unanswered list of the pass and in the source of a
\* retry pass; the rest as stated
C37_FailedSendAbortsPass ==
    /\ [][SendFailedInPass => hist'.pins = hist.pins \/ hist'.pins = << >>]_vars
    /\ [][FailedPassEnds =>
             /\ snd.p \in Range(remain') \/ snd.p \in AnsStimuli
             /\ pcM' = "top" => snd.p \in Range(tobesent') \/ snd.p \in AnsStimuli
             /\ NotReached \cap (Range(remain') \cup AnsStimuli) = {}]_vars
    /\ [](SendFailedInPass /\ hist.passes = 1 /\ ~cfg.isflood /\ send_done
             => notans = Len(hist.pins) - 1)

\* the send of stimulus 2 failed in the first pass: 1 and 2 are to be
\* resent, 3 is in neither list, and notans counts stimulus 1 only
C37_Witness ==
    /\ SendFailedInPass
    /\ pcM = "top" /\ hist.passes = 1
    /\ cfg.pkt = <<1, 2, 3>>
    /\ snd.p = 2
    /\ remain = <<1, 2>> /\ tobesent = <<1, 2>>
    /\ ans = << >>
    /\ notans = 1

\* ------------------------------------------------------------------ C38
\* lfilter, prn or stop_filter raises for a packet read from socket snf.cur
CallbackRaises == shist.cberr = "none" /\ shist'.cberr # "none"

\* C38: an exception of lfilter, prn or stop_filter for a packet of socket
\* s is handled like a failure of recv on s: s is closed and marked dead,
\* the rest of the batch is not handed to any callback, the sniffer goes on
\* with the other ready sockets (or re-raises under debug escalation, as for
\* recv) and s is out of the sniff set at the next loop test; what was
\* counted and stored before stays: every packet handed to prn is counted,
\* and stored when store is set
C38_CallbackErrorLikeRecvFailure ==
    /\ [][CallbackRaises =>
             /\ snf.cur \in snf'.closed /\ snf.cur \in snf'.dead
             /\ snf'.packets = << >>
             /\ Len(shist'.seen) <= Len(shist.seen) + 1
             /\ Len(shist'.prn) <= Len(shist.prn) + 1
             /\ snf'.sockets = snf.sockets
             /\ snf'.socks = snf.socks
             /\ snf'.continue_sniff = snf.continue_sniff
             /\ snf'.pc = IF sarg'.debug = "yes" THEN "raised" ELSE "for"
             /\ snf'.count >= snf.count /\ IsPrefix(snf.lst, snf'.lst)]_vars
    /\ [](shist.cberr # "none" =>
             /\ snf.pc \in {"loop", "select"} =>
                   snf.dead = {} /\ shist.evicted \cap snf.socks = {}
             /\ snf.count = Len(shist.prn)
             /\ sarg.store => snf.lst = shist.prn)

\* prn raised for the second packet of a batch of socket 1: the first one is
\* counted and stored, socket 1 is evicted and a packet of socket 2 is
\* accepted after it
C38_Witness ==
    /\ shist.cberr = "prn"
    /\ sarg.store /\ sarg.nsock = 2
    /\ shist.evicted = {1}
    /\ snf.socks = {2}
    /\ snf.count = 3 /\ Len(snf.lst) = 3
    /\ snf.pc = "loop"

\* ------------------------------------------------------------------ C39
\* the data sockets of the sniff
DataSocks == 1..sarg.nsock

\* C39: when _run returns normally running is false and results is set, the
\* control pipe, if one was installed, is closed, and every socket the
\* sniffer opened itself is closed, whatever ended the loop; the sockets the
\* caller gave through opened_socket are open unless they failed
C39_ReturnClosesWhatItOpened ==
    RunReturned =>
        /\ ~snf.running /\ snf.results = "Sniffed"
        /\ sarg.blocking => ClosePipe \in snf.closed
        /\ sarg.opened_socket = "no" => DataSocks \subseteq snf.closed
        /\ sarg.opened_socket = "yes" =>
              snf.closed \cap DataSocks = shist.evicted

====
